---- MODULE Spec2Model ----
(***************************************************************************)
(* A model of the caching, pooling and external-call layer of levelx:      *)
(*   data/peer_pool_manager.py   PeerPoolManager (shared peer pool)        *)
(*   data/cache_manager.py       CacheManager (tweet cache)                *)
(*   data/twitter_client.py      TwitterAPIClient._make_request            *)
(*   ai/grok_client.py           GrokClient._make_request                  *)
(*   services/analysis_service.py AnalysisService.run_full_analysis        *)
(*                                                                         *)
(* Database tables are collections of rows, each with its own identity     *)
(* (so two rows with equal columns can coexist).  Time is                  *)
(* the integer `now`, in hours.  Each subsystem has its own specification  *)
(* over the shared variables; the variables of the other subsystems stay   *)
(* at their initial values.                                                *)
(***************************************************************************)
EXTENDS Integers, Sequences, FiniteSets, TLC

VARIABLES
    now,          \* datetime.utcnow(), in hours since the start
    keycall,      \* the last generate_pool_key call: its arguments and result
    call,         \* one external call: client, position, retry_count, responses
    peer_pools,   \* table peer_pools (db/models.py PeerPool): the committed rows
    pool_ids,     \* the number of primary keys handed out to peer_pools rows
    psess,        \* per runner: the add_peers_to_pool call in progress and its session
    tweets_cache, \* table tweets_cache (db/models.py TweetsCache)
    cret,         \* the last CacheManager call: operation, handle, result
    user_profiles,\* table user_profiles (db/models.py UserProfile)
    peer_matches, \* table peer_matches (db/models.py PeerMatch)
    analyses,     \* table analyses (db/models.py Analysis)
    run,          \* per runner: the run_full_analysis call in progress
    jsoncall,     \* one complete_json call: response, cleaned text, result
    ledger        \* the CostTracker: credits, tokens, call counters

vars == <<now, keycall, call, peer_pools, pool_ids, psess, tweets_cache, cret,
          user_profiles, peer_matches, analyses, run, jsoncall, ledger>>

keyVars   == <<keycall>>
callVars  == <<call, jsoncall, ledger>>
poolVars  == <<peer_pools, pool_ids, psess>>
cacheVars == <<tweets_cache, cret>>
runVars   == <<user_profiles, peer_matches, analyses, run>>

-----------------------------------------------------------------------------
(* Helpers over sequences.                                                  *)

Range(s) == {s[i] : i \in 1..Len(s)}

RECURSIVE SelectIdx(_, _, _)
\* the indices i of s, in order, for which keep[i] holds
SelectIdx(s, keep, i) ==
    IF i > Len(s) THEN <<>>
    ELSE IF keep[i] THEN <<i>> \o SelectIdx(s, keep, i + 1)
    ELSE SelectIdx(s, keep, i + 1)

Min2(a, b) == IF a < b THEN a ELSE b

-----------------------------------------------------------------------------
(* PeerPoolManager.generate_pool_key                                       *)

MaxFollowers == 10500

Niches == {"finance", "tech"}

\* int(followers * m) for the multiplier m = num/den written as a decimal
\* literal (0.3, 0.4, 0.5, 2.0, 2.5, 3.0, 5.0): the float product truncated
\* toward zero.  For 0 <= followers the double product of these literals
\* truncates to floor(followers * num / den).
int_mul(followers, num, den) == (followers * num) \div den

\* the 1000..4999 tier stretched to include 5000
min_range_mut(followers) ==
    IF followers < 500 THEN int_mul(followers, 3, 10)
    ELSE IF followers < 1000 THEN int_mul(followers, 3, 10)
    ELSE IF followers <= 5000 THEN int_mul(followers, 4, 10)
    ELSE IF followers < 10000 THEN int_mul(followers, 5, 10)
    ELSE int_mul(followers, 5, 10)

min_range(followers) ==
    IF followers < 500 THEN int_mul(followers, 3, 10)
    ELSE IF followers < 1000 THEN int_mul(followers, 3, 10)
    ELSE IF followers < 5000 THEN int_mul(followers, 4, 10)
    ELSE IF followers < 10000 THEN int_mul(followers, 5, 10)
    ELSE int_mul(followers, 5, 10)

\* the 5000..9999 tier given the multiplier of the tier above it
max_range_mut(followers) ==
    IF followers < 500 THEN int_mul(followers, 50, 10)
    ELSE IF followers < 1000 THEN int_mul(followers, 50, 10)
    ELSE IF followers < 5000 THEN int_mul(followers, 30, 10)
    ELSE IF followers < 10000 THEN int_mul(followers, 20, 10)
    ELSE int_mul(followers, 20, 10)

max_range(followers) ==
    IF followers < 500 THEN int_mul(followers, 50, 10)
    ELSE IF followers < 1000 THEN int_mul(followers, 50, 10)
    ELSE IF followers < 5000 THEN int_mul(followers, 30, 10)
    ELSE IF followers < 10000 THEN int_mul(followers, 25, 10)
    ELSE int_mul(followers, 20, 10)

\* "Round to nice numbers": (x // 100) * 100
\* the rounding left out
round_100_mut(x) == x

round_100(x) == (x \div 100) * 100

generate_pool_key(niche, followers) ==
    niche \o "_" \o ToString(round_100(min_range(followers)))
          \o "-" \o ToString(round_100(max_range(followers)))

\* the caller's step: one call of generate_pool_key on the drawn arguments
call_generate_pool_key ==
    /\ keycall.done = FALSE
    /\ keycall' = [keycall EXCEPT
                     !.done = TRUE,
                     !.min_range = round_100(min_range(keycall.followers)),
                     !.max_range = round_100(max_range(keycall.followers)),
                     !.pool_key = generate_pool_key(keycall.niche, keycall.followers)]
    /\ UNCHANGED <<now, callVars, poolVars, cacheVars, runVars>>

KeyIdle == [niche |-> "finance", followers |-> 0, done |-> FALSE,
            min_range |-> 0, max_range |-> 0, pool_key |-> ""]

-----------------------------------------------------------------------------
(* TwitterAPIClient._make_request and GrokClient._make_request             *)
(* One action per HTTP attempt; the recursive self-call on a retry is the  *)
(* next firing of the action with retry_count + 1.                         *)

Clients == {"twitter", "grok"}

twitter_max_retries == 3
grok_max_retries == 3
max_retries(c) == IF c = "twitter" THEN twitter_max_retries ELSE grok_max_retries

twitter_rate_limit_delay == 5
twitter_rate_limit_wait == 10
timeout_wait == 2

\* What one attempt can meet: an HTTP status, requests' Timeout, or another
\* RequestException (connection error).
Responses ==
    {[kind |-> "http", status |-> s] : s \in {200, 429, 404, 401, 403, 500}}
    \cup {[kind |-> "timeout", status |-> 0], [kind |-> "neterr", status |-> 0]}

RECURSIVE Pow2(_)
Pow2(n) == IF n = 0 THEN 1 ELSE 2 * Pow2(n - 1)

\* the sleep before a rate-limit retry: fixed 10 s (twitter), 2 ** retry_count (grok)
rate_limit_wait(c, retry_count) ==
    IF c = "twitter" THEN twitter_rate_limit_wait ELSE Pow2(retry_count)

\* "if retry_count < self.max_retries"
may_retry_mut(c, retry_count) == retry_count <= max_retries(c)

may_retry(c, retry_count) == retry_count < max_retries(c)

\* the 401/403 branch left out: reported as any other status
http_error_kind_mut(c, status) ==
    IF c = "twitter" /\ status = 404 THEN "NotFound"
    ELSE "ServerError"

\* the exception raised for an HTTPError that is not retried, named by kind:
\*   twitter 404 "Account not found or endpoint incorrect"   -> NotFound
\*   401/403     "Invalid API key. ..."                       -> AuthError
\*   otherwise   "API error: <status>"                        -> ServerError
\* GrokClient has no 404 branch: its 404 is "API error: 404".
http_error_kind(c, status) ==
    IF c = "twitter" /\ status = 404 THEN "NotFound"
    ELSE IF status = 401 \/ status = 403 THEN "AuthError"
    ELSE "ServerError"

CallIdle == [client |-> "twitter", pc |-> "idle", retry_count |-> 0,
             responses |-> <<>>, sleeps |-> <<>>, error |-> "none"]

\* a caller invokes _make_request(..., retry_count = 0)
call_begin(c) ==
    /\ call.pc \in {"idle", "returned", "raised"}
    /\ call' = [CallIdle EXCEPT !.client = c, !.pc = "request"]
    /\ UNCHANGED <<now, jsoncall, ledger, keyVars, poolVars, cacheVars, runVars>>

\* the retry made without counting it
Retry_mut(c, wait) ==
    [call EXCEPT !.sleeps = Append(@, wait)]

\* the recursive call: retry_count + 1, after time.sleep(wait)
Retry(c, wait) ==
    [call EXCEPT !.retry_count = @ + 1, !.sleeps = Append(@, wait)]

Raise(kind) == [call EXCEPT !.pc = "raised", !.error = kind]

\* the call after one execution of the body of _make_request on resp
request_outcome(resp) ==
    LET c == call.client
        sent == [call EXCEPT !.responses = Append(@, resp)]
    IN      [responses |-> sent.responses] @@
            (IF resp.kind = "http" /\ resp.status < 400
             THEN \* raise_for_status passes; twitter sleeps rate_limit_delay
                  [call EXCEPT !.pc = "returned",
                               !.sleeps = IF c = "twitter"
                                          THEN Append(@, twitter_rate_limit_delay)
                                          ELSE @]
             ELSE IF resp.kind = "http"
             THEN IF resp.status = 429
                  THEN IF may_retry(c, call.retry_count)
                       THEN Retry(c, rate_limit_wait(c, call.retry_count))
                       ELSE Raise("RateLimited")
                  ELSE Raise(http_error_kind(c, resp.status))
             ELSE IF resp.kind = "timeout"
             THEN IF may_retry(c, call.retry_count)
                  THEN Retry(c, timeout_wait)
                  ELSE Raise("Timeout")
             ELSE Raise("NetworkError"))

\* one execution of the body of _make_request on the response resp
make_request(resp) ==
    /\ call.pc = "request"
    /\ call' = request_outcome(resp)
    /\ UNCHANGED <<now, jsoncall, ledger, keyVars, poolVars, cacheVars, runVars>>

-----------------------------------------------------------------------------
(* PeerPoolManager.add_peers_to_pool over SQLAlchemy sessions               *)
(*                                                                         *)
(* SessionLocal is made with autoflush=False: a query reads the committed  *)
(* rows only, never the objects the session has add()ed and not flushed;    *)
(* INSERTs and UPDATEs reach the table at session.commit().  An object      *)
(* loaded twice in one session is the same object (identity map).  The     *)
(* table peer_pools declares no unique constraint on (pool_key, handle).   *)

Runners == {"r1", "r2"}

MaxPoolRows == 3
MaxConcRows == 2
MaxPoolTime == 1
MaxBatch == 2

PeerHandles == {"ann", "bob"}

\* the fields add_peers_to_pool reads of a peer profile dict:
\* peer['handle'], peer['basic_metrics']['followers_count'],
\* peer['growth_velocity']['estimated_30d_growth']
PeerDicts ==
    [handle : PeerHandles, followers_count : {2000, 2100},
     estimated_30d_growth : {100}]

SeqsUpTo(S, n) == UNION {[1..k -> S] : k \in 0..n}

Batches == SeqsUpTo(PeerDicts, MaxBatch)

\* batches that name no handle twice, of peers with 2000 followers
DistinctBatches ==
    {b \in Batches :
        /\ \A i, j \in 1..Len(b) : b[i].handle = b[j].handle => i = j
        /\ \A i \in 1..Len(b) : b[i].followers_count = 2000}

\* the explicit pool_key arguments; "" stands for None (key generated)
PoolKeyArgs == {"", "finance_800-6000"}

RECURSIVE SumFollowers(_)
SumFollowers(peers) ==
    IF peers = <<>> THEN 0
    ELSE Head(peers).followers_count + SumFollowers(Tail(peers))

\* pool_key = generate_pool_key(niche, int(avg_followers)) when none is given
resolve_pool_key(peers, niche, pool_key) ==
    IF pool_key = "" THEN generate_pool_key(niche, SumFollowers(peers) \div Len(peers))
    ELSE pool_key

SessIdle == [pc |-> "idle", todo |-> <<>>, pool_key |-> "", niche |-> "",
             objs |-> <<>>, pending |-> <<>>, added_count |-> 0, ret |-> 0,
             op |-> "none", handles |-> <<>>, logged |-> FALSE]

\* the committed rows a query on (pool_key, handle) matches
pool_matching(pool_key, handle) ==
    {row \in peer_pools : row.pool_key = pool_key /\ row.handle = handle}

\* the object the session holds for a row: the one already in its identity
\* map, else the row as loaded
sess_object(sess, row) ==
    IF row.id \in DOMAIN sess.objs THEN sess.objs[row.id]
    ELSE [loaded |-> row, cur |-> row]

\* the primary keys handed out so far plus the rows the open sessions can
\* still insert (bounds the table)
RECURSIVE SumOver(_, _)
SumOver(f, S) ==
    IF S = {} THEN 0
    ELSE LET x == CHOOSE x \in S : TRUE IN f[x] + SumOver(f, S \ {x})

PoolLoad ==
    pool_ids + SumOver([r \in Runners |-> Len(psess[r].todo) + Len(psess[r].pending)], Runners)

\* "if not peers: return 0"; otherwise get_session() and enter the loop
pool_add_begin(r, peers, niche, pool_key) ==
    /\ psess[r].pc = "idle"
    /\ psess' = [psess EXCEPT ![r] =
                   IF peers = <<>> THEN [SessIdle EXCEPT !.ret = 0]
                   ELSE [SessIdle EXCEPT
                           !.pc = "add_loop", !.todo = peers, !.niche = niche,
                           !.pool_key = resolve_pool_key(peers, niche, pool_key)]]
    /\ UNCHANGED <<now, peer_pools, pool_ids, keyVars, callVars, cacheVars, runVars>>

\* "Update existing peer (refresh validation)"
\* the entry not marked valid again
pool_refresh_mut(obj, peer) ==
    [obj EXCEPT !.cur = [@ EXCEPT !.follower_count = peer.followers_count,
                                  !.growth_rate = peer.estimated_30d_growth,
                                  !.last_validated = now]]

pool_refresh(obj, peer) ==
    [obj EXCEPT !.cur = [@ EXCEPT !.follower_count = peer.followers_count,
                                  !.growth_rate = peer.estimated_30d_growth,
                                  !.last_validated = now,
                                  !.is_valid = TRUE]]

\* "Add new peer": PeerPool(...), still without a primary key
pool_new_peer(sess, peer) ==
    [handle |-> peer.handle, pool_key |-> sess.pool_key, niche |-> sess.niche,
     follower_count |-> peer.followers_count,
     growth_rate |-> peer.estimated_30d_growth,
     is_valid |-> TRUE, last_validated |-> now, times_used |-> 0]

\* one iteration of "for peer in peers": the lookup, then update or add
pool_add_peer(r) ==
    /\ psess[r].pc = "add_loop"
    /\ psess[r].todo # <<>>
    /\ LET sess == psess[r]
           peer == Head(sess.todo)
           found == pool_matching(sess.pool_key, peer.handle)
       IN IF found # {}
          THEN \* .first() with no ORDER BY: any one of the matching rows
               \E existing \in found :
                  psess' = [psess EXCEPT ![r] =
                     [sess EXCEPT
                        !.todo = Tail(@),
                        !.objs = (existing.id :> pool_refresh(sess_object(sess, existing), peer)) @@ @]]
          ELSE psess' = [psess EXCEPT ![r] =
                     [sess EXCEPT
                        !.todo = Tail(@),
                        !.pending = Append(@, pool_new_peer(sess, peer)),
                        !.added_count = @ + 1]]
    /\ UNCHANGED <<now, peer_pools, pool_ids, keyVars, callVars, cacheVars, runVars>>

\* the UPDATE of a flush writes the attributes the session changed
flush_row(row, obj) ==
    [c \in DOMAIN row |-> IF obj.cur[c] # obj.loaded[c] THEN obj.cur[c] ELSE row[c]]

\* the rows of a flush: every loaded row rewritten, every pending object
\* inserted under a fresh primary key
flush_rows(sess, first_id) ==
    {IF row.id \in DOMAIN sess.objs THEN flush_row(row, sess.objs[row.id]) ELSE row :
        row \in peer_pools}
    \cup {[id |-> first_id + i] @@ sess.pending[i] : i \in 1..Len(sess.pending)}

\* session.commit(); session.close(); return added_count.  (When a loaded
\* row is gone the UPDATE matches nothing and the commit raises: pool_add_error.)
pool_add_commit(r) ==
    /\ psess[r].pc = "add_loop"
    /\ psess[r].todo = <<>>
    /\ \A id \in DOMAIN psess[r].objs : \E row \in peer_pools : row.id = id
    /\ peer_pools' = flush_rows(psess[r], pool_ids)
    /\ pool_ids' = pool_ids + Len(psess[r].pending)
    /\ psess' = [psess EXCEPT ![r] = [SessIdle EXCEPT !.ret = psess[r].added_count]]
    /\ UNCHANGED <<now, keyVars, callVars, cacheVars, runVars>>

\* "except Exception": a storage error in the loop or at the commit;
\* session.rollback(); session.close(); return 0
pool_add_error(r) ==
    /\ psess[r].pc = "add_loop"
    /\ psess' = [psess EXCEPT ![r] = [SessIdle EXCEPT !.ret = 0, !.logged = TRUE]]
    /\ UNCHANGED <<now, peer_pools, pool_ids, keyVars, callVars, cacheVars, runVars>>

\* time passes
pool_tick ==
    /\ now < MaxPoolTime
    /\ now' = now + 1
    /\ UNCHANGED <<poolVars, keyVars, callVars, cacheVars, runVars>>

-----------------------------------------------------------------------------
(* PeerPoolManager: reading the pool, usage counters, invalidation          *)
(*                                                                         *)
(* These calls are made one at a time by one manager, so each is one step. *)
(* psess[r] keeps the last call's name, for a read the returned list, and   *)
(* whether the call logged an error (its "except Exception" branch ran).   *)

\* PeerPoolManager(validation_days): the constructor default, in days
validation_days == 7

MaxUsed == 2
MaxPoolDays == 7

\* the days that may pass in one step of the clock
TickDays == {7}

CountArgs == {1, 5}
FollowerArgs == {2000}
HandleLists == {<<>>, <<"ann">>, <<"bob">>, <<"ann", "bob">>}

\* query.filter(pool_key == pool_key) and, with require_valid,
\* .filter(is_valid == True, last_validated > validation_threshold)
\* the is_valid condition left out
pool_eligible_mut(pool_key, require_valid) ==
    {row \in peer_pools :
        /\ row.pool_key = pool_key
        /\ require_valid => row.last_validated > now - 24 * validation_days}

pool_eligible(pool_key, require_valid) ==
    {row \in peer_pools :
        /\ row.pool_key = pool_key
        /\ require_valid =>
              /\ row.is_valid
              /\ row.last_validated > now - 24 * validation_days}

\* order_by(times_used.desc(), last_validated.desc()): a sorts before b
ranks_before(a, b) ==
    \/ a.times_used > b.times_used
    \/ a.times_used = b.times_used /\ a.last_validated > b.last_validated

\* the orders in which the query can return the rows S (rows equal in both
\* sort columns come in any order)
pool_orderings(S) ==
    {s \in [1..Cardinality(S) -> S] :
        \A i, j \in 1..Cardinality(S) :
            i < j => s[i] # s[j] /\ ~ranks_before(s[j], s[i])}

\* .limit(count * 2).all(), then peers[:count]
\* nothing returned when the pool cannot fill the request
pool_take_mut(s, count) ==
    IF Len(s) < count THEN <<>> ELSE SubSeq(s, 1, count)

pool_take(s, count) ==
    LET peers == SubSeq(s, 1, Min2(count * 2, Len(s)))
    IN SubSeq(peers, 1, Min2(count, Len(peers)))

PoolOthers == <<now, keyVars, callVars, cacheVars, runVars>>

\* get_peers_from_pool(niche, followers, count, require_valid); fault: the
\* storage raises, "return []"
get_peers_from_pool(r, niche, followers, count, require_valid, fault) ==
    LET pool_key == generate_pool_key(niche, followers)
        ret == [SessIdle EXCEPT !.op = "get_peers_from_pool"]
    IN /\ psess[r].pc = "idle"
       /\ IF fault
          THEN psess' = [psess EXCEPT ![r] = [ret EXCEPT !.logged = TRUE]]
          ELSE \E s \in pool_orderings(pool_eligible(pool_key, require_valid)) :
                  LET peers == pool_take(s, count)
                  IN psess' = [psess EXCEPT ![r] =
                        [ret EXCEPT !.handles = [k \in 1..Len(peers) |-> peers[k].handle]]]
       /\ UNCHANGED <<peer_pools, pool_ids, PoolOthers>>

\* the number of times handle occurs in handles
Occurrences(handles, handle) ==
    Cardinality({i \in 1..Len(handles) : handles[i] = handle})

\* the rows "for handle in handles: query(...).first()" can load: one
\* matching row for every listed handle that has any
pool_loaded(handles, pool_key) ==
    {chosen \in SUBSET peer_pools :
        /\ \A row \in chosen :
              row.pool_key = pool_key /\ row.handle \in Range(handles)
        /\ \A h \in Range(handles) :
              pool_matching(pool_key, h) # {} =>
                  Cardinality(chosen \cap pool_matching(pool_key, h)) = 1}

\* "peer.times_used += 1", once for every occurrence of the handle
\* the counter raised by two
bump_usage_mut(row, handles) ==
    [row EXCEPT !.times_used = @ + 2 * Occurrences(handles, row.handle)]

bump_usage(row, handles) ==
    [row EXCEPT !.times_used = @ + Occurrences(handles, row.handle)]

\* increment_usage(handles, pool_key); fault: the storage raises in a
\* query or at the commit, "logger.error(...); session.rollback()": the
\* increments made on the session's objects are never written
\* the increments made before the failure kept
increment_usage_mut(r, handles, pool_key, fault) ==
    /\ psess[r].pc = "idle"
    /\ psess' = [psess EXCEPT ![r] =
          [SessIdle EXCEPT !.op = "increment_usage",
                           !.logged = fault /\ handles # <<>>]]
    /\ IF handles = <<>>
       THEN UNCHANGED peer_pools
       ELSE \E chosen \in pool_loaded(IF fault THEN <<Head(handles)>> ELSE handles, pool_key) :
               peer_pools' = {IF row \in chosen THEN bump_usage(row, handles) ELSE row :
                                 row \in peer_pools}
    /\ UNCHANGED <<pool_ids, PoolOthers>>

increment_usage(r, handles, pool_key, fault) ==
    /\ psess[r].pc = "idle"
    /\ psess' = [psess EXCEPT ![r] =
          [SessIdle EXCEPT !.op = "increment_usage",
                           !.logged = fault /\ handles # <<>>]]
    /\ IF fault \/ handles = <<>>
       THEN UNCHANGED peer_pools
       ELSE \E chosen \in pool_loaded(handles, pool_key) :
               peer_pools' = {IF row \in chosen THEN bump_usage(row, handles) ELSE row :
                                 row \in peer_pools}
    /\ UNCHANGED <<pool_ids, PoolOthers>>

\* increment_usage followed query by query, for callers that run at the
\* same time: "if not handles: return", else get_session() and the loop
usage_begin(r, handles, pool_key) ==
    /\ psess[r].pc = "idle"
    /\ psess' = [psess EXCEPT ![r] =
          IF handles = <<>> THEN [SessIdle EXCEPT !.op = "increment_usage"]
          ELSE [SessIdle EXCEPT !.op = "increment_usage", !.pc = "inc_loop",
                                !.handles = handles, !.pool_key = pool_key]]
    /\ UNCHANGED <<peer_pools, pool_ids, PoolOthers>>

\* one iteration of "for handle in handles": the query reads the committed
\* row, "peer.times_used += 1" adds one to the value the session holds
usage_load(r) ==
    /\ psess[r].pc = "inc_loop"
    /\ psess[r].handles # <<>>
    /\ LET sess == psess[r]
           found == pool_matching(sess.pool_key, Head(sess.handles))
       IN IF found = {}
          THEN psess' = [psess EXCEPT ![r] = [sess EXCEPT !.handles = Tail(@)]]
          ELSE \E peer \in found :
                  psess' = [psess EXCEPT ![r] =
                     [sess EXCEPT
                        !.handles = Tail(@),
                        !.objs = (peer.id :>
                                    [sess_object(sess, peer) EXCEPT !.cur.times_used = @ + 1])
                                 @@ @]]
    /\ UNCHANGED <<peer_pools, pool_ids, PoolOthers>>

\* session.commit(): the UPDATE sets times_used to the session's value
usage_commit(r) ==
    /\ psess[r].pc = "inc_loop"
    /\ psess[r].handles = <<>>
    /\ peer_pools' = flush_rows(psess[r], pool_ids)
    /\ psess' = [psess EXCEPT ![r] = [SessIdle EXCEPT !.op = "increment_usage"]]
    /\ UNCHANGED <<pool_ids, PoolOthers>>

\* "except Exception": logger.error, session.rollback(), session.close()
usage_error(r) ==
    /\ psess[r].pc = "inc_loop"
    /\ psess' = [psess EXCEPT ![r] =
          [SessIdle EXCEPT !.op = "increment_usage", !.logged = TRUE]]
    /\ UNCHANGED <<peer_pools, pool_ids, PoolOthers>>

\* mark_invalid(handle, pool_key); fault: rollback, nothing written
\* the row deleted instead of marked
mark_invalid_mut(r, handle, pool_key, fault) ==
    /\ psess[r].pc = "idle"
    /\ psess' = [psess EXCEPT ![r] =
          [SessIdle EXCEPT !.op = "mark_invalid", !.logged = fault]]
    /\ IF fault
       THEN UNCHANGED peer_pools
       ELSE \E chosen \in pool_loaded(<<handle>>, pool_key) :
               peer_pools' = peer_pools \ chosen
    /\ UNCHANGED <<pool_ids, PoolOthers>>

mark_invalid(r, handle, pool_key, fault) ==
    /\ psess[r].pc = "idle"
    /\ psess' = [psess EXCEPT ![r] =
          [SessIdle EXCEPT !.op = "mark_invalid", !.logged = fault]]
    /\ IF fault
       THEN UNCHANGED peer_pools
       ELSE \E chosen \in pool_loaded(<<handle>>, pool_key) :
               peer_pools' = {IF row \in chosen THEN [row EXCEPT !.is_valid = FALSE] ELSE row :
                                 row \in peer_pools}
    /\ UNCHANGED <<pool_ids, PoolOthers>>

PoolDaysArgs == {0, 7}

\* cleanup_stale_peers(days_old); fault: rollback, "return 0"
\* a peer validated exactly at the threshold removed as well
cleanup_stale_peers_mut(r, days_old, fault) ==
    /\ psess[r].pc = "idle"
    /\ LET threshold == now - 24 * days_old
           stale == {row \in peer_pools : row.last_validated <= threshold}
       IN /\ peer_pools' = IF fault THEN peer_pools ELSE peer_pools \ stale
          /\ psess' = [psess EXCEPT ![r] =
                [SessIdle EXCEPT !.op = "cleanup_stale_peers", !.logged = fault,
                                 !.ret = IF fault THEN 0 ELSE Cardinality(stale)]]
    /\ UNCHANGED <<pool_ids, PoolOthers>>

cleanup_stale_peers(r, days_old, fault) ==
    /\ psess[r].pc = "idle"
    /\ LET threshold == now - 24 * days_old
           stale == {row \in peer_pools : row.last_validated < threshold}
       IN /\ peer_pools' = IF fault THEN peer_pools ELSE peer_pools \ stale
          /\ psess' = [psess EXCEPT ![r] =
                [SessIdle EXCEPT !.op = "cleanup_stale_peers", !.logged = fault,
                                 !.ret = IF fault THEN 0 ELSE Cardinality(stale)]]
    /\ UNCHANGED <<pool_ids, PoolOthers>>

\* cleanup_invalid_peers(); fault: rollback, "return 0"
cleanup_invalid_peers(r, fault) ==
    /\ psess[r].pc = "idle"
    /\ LET invalid == {row \in peer_pools : row.is_valid = FALSE}
       IN /\ peer_pools' = IF fault THEN peer_pools ELSE peer_pools \ invalid
          /\ psess' = [psess EXCEPT ![r] =
                [SessIdle EXCEPT !.op = "cleanup_invalid_peers", !.logged = fault,
                                 !.ret = IF fault THEN 0 ELSE Cardinality(invalid)]]
    /\ UNCHANGED <<pool_ids, PoolOthers>>

\* days pass
pool_tick_days(d) ==
    /\ now' = now + 24 * d
    /\ UNCHANGED <<poolVars, keyVars, callVars, cacheVars, runVars>>

-----------------------------------------------------------------------------
(* CacheManager: the tweet cache over table tweets_cache                    *)
(*                                                                         *)
(* tweets_cache is the sequence of committed rows in insertion order.       *)
(* A handle is a sequence of characters.  cache_tweets commits a            *)
(* transaction between reading the clock and returning, so the next clock   *)
(* reading is later: successive rows carry strictly increasing fetched_at.  *)

\* CacheManager(ttl_hours): the constructor argument, in hours (its default
\* is 6; the instance examined here is built with a shorter window)
ttl_hours == 3

MaxCacheRows == 2
MaxCacheTime == 5

HandleArgs == {<<"a">>, <<"@", "A">>, <<"b">>}

\* lists of tweet dicts
TweetLists == {<<"t1">>, <<"t2", "t1">>}

DaysArgs == {0, 1}

RECURSIVE lstrip_at(_)
\* handle.lstrip('@')
lstrip_at(h) == IF h # <<>> /\ Head(h) = "@" THEN lstrip_at(Tail(h)) ELSE h

lower_char(c) == IF c = "A" THEN "a" ELSE IF c = "B" THEN "b" ELSE c

\* str.lower()
lower(h) == [i \in 1..Len(h) |-> lower_char(h[i])]

\* handle.lstrip('@').lower()
\* the case of the handle kept
normalize_handle_mut(h) == lstrip_at(h)

normalize_handle(h) == lower(lstrip_at(h))

\* json.dumps(tweets) / json.loads(tweet_data): the stored text of a list
json_dumps(tweets) == [json |-> tweets]
json_loads(text) == text.json

CacheRetIdle == [op |-> "none", handle |-> <<>>, hit |-> FALSE, value |-> <<>>,
                 count |-> 0, n |-> 0]

\* the record of a finished call; n flips with every call
CacheRet(op, handle, hit, value, count) ==
    [op |-> op, handle |-> handle, hit |-> hit, value |-> value,
     count |-> count, n |-> 1 - cret.n]

\* TweetsCache.fetched_at > expiration_time
\* the boundary instant counted as fresh
is_fresh_mut(row, expiration_time) == row.fetched_at >= expiration_time

is_fresh(row, expiration_time) == row.fetched_at > expiration_time

\* filter(x_handle == handle, fetched_at > expiration_time)
\*   .order_by(fetched_at.desc()).first(): the positions of the matching
\* rows with the greatest fetched_at (one of them is returned)
cache_first(handle, expiration_time) ==
    LET match == {i \in 1..Len(tweets_cache) :
                     /\ tweets_cache[i].x_handle = handle
                     /\ is_fresh(tweets_cache[i], expiration_time)}
    IN {i \in match : \A j \in match : tweets_cache[j].fetched_at <= tweets_cache[i].fetched_at}

\* get_cached_tweets(handle); fault: the storage raises, "return None"
get_cached_tweets(handle_arg, fault) ==
    LET handle == normalize_handle(handle_arg)
        expiration_time == now - ttl_hours
        first == cache_first(handle, expiration_time)
    IN /\ IF fault \/ first = {}
          THEN cret' = CacheRet("get", handle_arg, FALSE, <<>>, 0)
          ELSE \E i \in first :
                  cret' = CacheRet("get", handle_arg, TRUE,
                                   json_loads(tweets_cache[i].tweet_data), 0)
       /\ UNCHANGED <<now, tweets_cache, keyVars, callVars, poolVars, runVars>>

\* session.add(cache_entry); session.commit(): the table after the insert
\* an entry of the same handle overwritten in place
cache_insert_mut(entry) ==
    IF \E i \in 1..Len(tweets_cache) : tweets_cache[i].x_handle = entry.x_handle
    THEN [i \in 1..Len(tweets_cache) |->
             IF tweets_cache[i].x_handle = entry.x_handle THEN entry ELSE tweets_cache[i]]
    ELSE Append(tweets_cache, entry)

cache_insert(entry) == Append(tweets_cache, entry)

\* cache_tweets(handle, tweets); fault: the storage raises, rollback, "return False"
cache_tweets(handle_arg, tweets, fault) ==
    LET handle == normalize_handle(handle_arg)
        cache_entry == [x_handle |-> handle, tweet_data |-> json_dumps(tweets),
                        fetched_at |-> now]
    IN IF fault
       THEN /\ cret' = CacheRet("put", handle_arg, FALSE, tweets, 0)
            /\ UNCHANGED <<now, tweets_cache, keyVars, callVars, poolVars, runVars>>
       ELSE /\ tweets_cache' = cache_insert(cache_entry)
            /\ now' = now + 1
            /\ cret' = CacheRet("put", handle_arg, TRUE, tweets, 0)
            /\ UNCHANGED <<keyVars, callVars, poolVars, runVars>>

\* the rows of tweets_cache that keep[i] retains, in order
cache_keep(keep) ==
    LET idx == SelectIdx(tweets_cache, keep, 1)
    IN [k \in 1..Len(idx) |-> tweets_cache[idx[k]]]

\* invalidate_cache(handle); fault: rollback, "return False"
invalidate_cache(handle_arg, fault) ==
    LET handle == normalize_handle(handle_arg)
        keep == [i \in 1..Len(tweets_cache) |-> tweets_cache[i].x_handle # handle]
    IN /\ tweets_cache' = IF fault THEN tweets_cache ELSE cache_keep(keep)
       /\ cret' = CacheRet("invalidate", handle_arg, ~fault, <<>>, 0)
       /\ UNCHANGED <<now, keyVars, callVars, poolVars, runVars>>

\* cleanup_old_cache(days_old); fault: rollback, "return 0"
cleanup_old_cache(days_old, fault) ==
    LET threshold == now - 24 * days_old
        keep == [i \in 1..Len(tweets_cache) |-> ~(tweets_cache[i].fetched_at < threshold)]
        kept == cache_keep(keep)
    IN /\ tweets_cache' = IF fault THEN tweets_cache ELSE kept
       /\ cret' = CacheRet("cleanup", <<>>, ~fault, <<>>,
                           IF fault THEN 0 ELSE Len(tweets_cache) - Len(kept))
       /\ UNCHANGED <<now, keyVars, callVars, poolVars, runVars>>

\* time passes
cache_tick ==
    /\ now < MaxCacheTime
    /\ now' = now + 1
    /\ UNCHANGED <<cacheVars, keyVars, callVars, poolVars, runVars>>

-----------------------------------------------------------------------------
(* AnalysisService.run_full_analysis                                        *)
(*                                                                         *)
(* A run is a sequence of steps; every call to an external collaborator    *)
(* (twitter client, profiler, peer matcher, insights generator) is one     *)
(* step whose outcome is chosen by the environment.  The database work     *)
(* between two external calls belongs to the step that precedes it.  Rows  *)
(* are appended as `now` never decreases, so in table order analyzed_at    *)
(* and created_at never decrease: "order by ... desc" is reverse table     *)
(* order.  run[r].calls lists the collaborators the run has invoked.       *)

MaxProfiles == 2
MaxAnalyses == 2
MaxRunTime == 24

\* the hours that may pass in one step of the clock
TickHours == {6, 18}

profile_ttl_hours == 6
peer_ttl_hours == 24
peer_count == 5
FAMOUS_THRESHOLD == 100000

\* table users: id -> x_handle
users == [u \in {"u1"} |-> "alice"]

UserIdArgs == {"u1", "u9"}

\* outcomes of TwitterAPIClient.get_user_by_handle: the user dict, None,
\* or a raised TwitterAPIError
UserDatas ==
    {[username |-> "alice", followers_count |-> f, following_count |-> 400]
        : f \in {5000, FAMOUS_THRESHOLD}}

UserOutcomes ==
    {[kind |-> "ok", value |-> <<d>>, error |-> ""] : d \in UserDatas}
    \cup {[kind |-> "none", value |-> <<>>, error |-> ""],
          [kind |-> "raise", value |-> <<>>, error |-> "TwitterAPIError"]}

\* outcomes of TwitterAPIClient.get_user_tweets: a list (possibly empty) or
\* a raised TwitterAPIError
TweetOutcomes ==
    {[kind |-> "ok", value |-> t, error |-> ""] : t \in {<<>>, <<"t1", "t2">>}}
    \cup {[kind |-> "raise", value |-> <<>>, error |-> "TwitterAPIError"]}

\* outcomes of GrokClient.complete_json for the profiling prompt: a profile
\* with or without the 'handle' key, or a raised GrokAPIError
GrokProfiles ==
    {[handle |-> "alice", primary_niche |-> "stocks and investing",
      posting_frequency_per_week |-> 7]}

ProfileOutcomes ==
    {[kind |-> "ok", value |-> <<g>>, error |-> ""] : g \in GrokProfiles}
    \cup {[kind |-> "invalid", value |-> <<>>, error |-> ""],
          [kind |-> "raise", value |-> <<>>, error |-> "GrokAPIError"]}

\* a peer as Grok returns it
RawPeer(h, score) == [handle |-> h, followers |-> 9000, match_score |-> score]

\* outcomes of GrokClient.complete_json for the peer prompt: the 'peers'
\* list of the response, or a raised GrokAPIError
RawPeerLists ==
    {<<>>,
     <<RawPeer(<<"@", "p">>, 80)>>,
     <<RawPeer(<<"p">>, 70), RawPeer(<<"q">>, 90), RawPeer(<<"r">>, 70),
       RawPeer(<<"s">>, 60), RawPeer(<<"t">>, 50), RawPeer(<<"u">>, 95)>>}

PeerOutcomes ==
    {[kind |-> "ok", value |-> l, error |-> ""] : l \in RawPeerLists}
    \cup {[kind |-> "raise", value |-> <<>>, error |-> "GrokAPIError"]}

\* required_keys of InsightsGenerator._validate_response
required_keys ==
    {"growth_score", "posting_analysis", "content_analysis", "topic_analysis",
     "structure_analysis", "insights"}

\* a parsed analysis response: the keys it has, its growth_score and what
\* its 'insights' value is (a list of some length, or no list)
CompleteResponse ==
    [keys |-> required_keys, growth_score |-> 7,
     insights |-> [is_list |-> TRUE, len |-> 3]]

\* responses that lack one required key, or whose insights value is an
\* empty list or no list
IncompleteResponses ==
    {[CompleteResponse EXCEPT !.keys = required_keys \ {key}] : key \in required_keys}
    \cup {[CompleteResponse EXCEPT !.insights = [is_list |-> TRUE, len |-> 0]],
          [CompleteResponse EXCEPT !.insights = [is_list |-> FALSE, len |-> 0]]}

\* outcomes of GrokClient.complete_json for the analysis prompt: a response
\* that passes _validate_response, one that does not, or a raised GrokAPIError
InsightOutcomes ==
    {[kind |-> "ok", value |-> <<CompleteResponse>>, error |-> ""],
     [kind |-> "raise", value |-> <<>>, error |-> "GrokAPIError"]}
    \cup {[kind |-> "invalid", value |-> <<response>>, error |-> ""] :
              response \in IncompleteResponses}

RunIdle ==
    [pc |-> "idle", user_id |-> "", force_refresh_profile |-> FALSE,
     force_refresh_peers |-> FALSE, user_data |-> <<>>, tweets |-> <<>>,
     profile |-> <<>>, peers |-> <<>>, error |-> "", calls |-> <<>>,
     result |-> <<>>]

\* UserProfiler._should_fetch_tweets
\* the threshold itself counted as a small account
should_fetch_tweets_mut(followers_count) == followers_count <= FAMOUS_THRESHOLD

should_fetch_tweets(followers_count) == followers_count < FAMOUS_THRESHOLD

\* round(followers / following, 2) if following > 0 else float(followers),
\* in hundredths
follower_following_ratio(followers, following) ==
    IF following > 0 THEN ((followers * 1000) \div following + 5) \div 10
    ELSE followers * 100

\* UserProfiler._extract_primary_niche: the first category with a keyword
\* contained in the niche text
extract_primary_niche(primary) ==
    IF primary = "stocks and investing" THEN "finance" ELSE "other"

\* the profile dict analyze_user returns
build_profile(user_data, grok_profile) ==
    [handle |-> user_data.username,
     basic_metrics |->
        [followers_count |-> user_data.followers_count,
         following_count |-> user_data.following_count,
         follower_following_ratio |->
            follower_following_ratio(user_data.followers_count,
                                     user_data.following_count)],
     grok_profile |-> grok_profile,
     niche |-> extract_primary_niche(grok_profile.primary_niche),
     posts_per_week |-> grok_profile.posting_frequency_per_week,
     db_id |-> 0]

\* the profile dict rebuilt from a cached user_profiles row
cached_profile(user_id, cached) ==
    [handle |-> users[user_id],
     basic_metrics |->
        [followers_count |-> cached.followers_count,
         following_count |-> cached.following_count,
         follower_following_ratio |-> 0],
     grok_profile |-> cached.grok_profile,
     niche |-> cached.niche,
     posts_per_week |-> 0,
     db_id |-> cached.id]

\* the user_profiles row saved for a fresh profile
profile_row(user_id, profile_data) ==
    [id |-> Len(user_profiles) + 1,
     user_id |-> user_id,
     followers_count |-> profile_data.basic_metrics.followers_count,
     following_count |-> profile_data.basic_metrics.following_count,
     grok_profile |-> profile_data.grok_profile,
     niche |-> profile_data.niche,
     analyzed_at |-> now,
     expires_at |-> now + profile_ttl_hours]

\* filter(user_id == user.id, expires_at > utcnow())
\*   .order_by(analyzed_at.desc()).first(): the position of the row, or 0
\* a record still used at the instant it expires
cached_profile_row_mut(user_id) ==
    LET fresh == {i \in 1..Len(user_profiles) :
                     /\ user_profiles[i].user_id = user_id
                     /\ user_profiles[i].expires_at >= now}
    IN IF fresh = {} THEN 0 ELSE CHOOSE i \in fresh : \A j \in fresh : j <= i

cached_profile_row(user_id) ==
    LET fresh == {i \in 1..Len(user_profiles) :
                     /\ user_profiles[i].user_id = user_id
                     /\ user_profiles[i].expires_at > now}
    IN IF fresh = {} THEN 0 ELSE CHOOSE i \in fresh : \A j \in fresh : j <= i

\* PeerMatcher._format_peers, one peer
format_peer(peer) ==
    [handle |-> lstrip_at(peer.handle),
     basic_metrics |-> [followers_count |-> peer.followers],
     grok_profile |-> [handle |-> peer.handle, followers |-> peer.followers],
     match_score |-> peer.match_score]

RECURSIVE insert_by_score(_, _)
\* p placed behind the peers of s with a match_score not below its own
insert_by_score(s, p) ==
    IF s = <<>> THEN <<p>>
    ELSE IF Head(s).match_score >= p.match_score
         THEN <<Head(s)>> \o insert_by_score(Tail(s), p)
         ELSE <<p>> \o s

RECURSIVE sort_by_score(_)
\* formatted.sort(key=match_score, reverse=True): stable, descending
sort_by_score(s) ==
    IF s = <<>> THEN <<>>
    ELSE insert_by_score(sort_by_score(SubSeq(s, 1, Len(s) - 1)), s[Len(s)])

\* PeerMatcher.find_peers on the peers Grok returned: format, sort, [:count]
top_peers(raw, count) ==
    LET formatted == sort_by_score([i \in 1..Len(raw) |-> format_peer(raw[i])])
    IN SubSeq(formatted, 1, Min2(count, Len(formatted)))

\* the peer_matches row saved for a peer
peer_match_row(user_id, peer) ==
    [user_id |-> user_id,
     peer_handle |-> peer.handle,
     peer_followers |-> peer.basic_metrics.followers_count,
     peer_profile |-> peer.grok_profile,
     match_score |-> peer.match_score,
     created_at |-> now,
     expires_at |-> now + peer_ttl_hours]

RECURSIVE Reverse(_)
Reverse(s) == IF s = <<>> THEN <<>> ELSE Reverse(Tail(s)) \o <<Head(s)>>

\* filter(user_id == user.id, expires_at > utcnow())
\*   .order_by(created_at.desc()).limit(5).all()
cached_peer_rows(user_id) ==
    LET keep == [i \in 1..Len(peer_matches) |->
                    /\ peer_matches[i].user_id = user_id
                    /\ peer_matches[i].expires_at > now]
        idx == Reverse(SelectIdx(peer_matches, keep, 1))
    IN [k \in 1..Min2(peer_count, Len(idx)) |-> peer_matches[idx[k]]]

\* "cached and len(cached) >= 5"
\* any cached row taken as a hit
peer_cache_hit_mut(cached) == Len(cached) >= 1

peer_cache_hit(cached) == Len(cached) >= peer_count

\* session.query(PeerMatch).filter_by(user_id=user.id).delete()
delete_peer_matches(user_id) ==
    LET keep == [i \in 1..Len(peer_matches) |-> peer_matches[i].user_id # user_id]
        idx == SelectIdx(peer_matches, keep, 1)
    IN [k \in 1..Len(idx) |-> peer_matches[idx[k]]]

\* the exception leaves run_full_analysis; "finally: session.close()"
run_raise(rec, error) ==
    [rec EXCEPT !.pc = "failed", !.error = error]

\* _get_or_create_peers up to its first external call, entered with the
\* profile resolved: the per-user peer cache is read; a hit returns the
\* cached peer_profile values, a miss goes on to PeerMatcher.find_peers
enter_get_or_create_peers(rec, profile_data) ==
    LET cached == cached_peer_rows(rec.user_id)
        rec1 == [rec EXCEPT !.profile = <<profile_data>>,
                            !.calls = Append(@, "query_peer_matches")]
        rec0 == [rec EXCEPT !.profile = <<profile_data>>]
    IN IF ~rec.force_refresh_peers /\ peer_cache_hit(cached)
       THEN [rec1 EXCEPT !.pc = "generate_insights",
                         !.peers = [k \in 1..Len(cached) |-> cached[k].peer_profile]]
       ELSE IF rec.force_refresh_peers
            THEN [rec0 EXCEPT !.pc = "find_peers"]
            ELSE [rec1 EXCEPT !.pc = "find_peers"]

RunOthers == <<now, keyVars, callVars, poolVars, cacheVars>>

\* run_full_analysis(user_id, force_refresh_profile, force_refresh_peers)
\* up to its first external call: the user lookup and the profile cache
run_full_analysis(r, user_id, force_refresh_profile, force_refresh_peers) ==
    LET rec == [RunIdle EXCEPT !.user_id = user_id,
                               !.force_refresh_profile = force_refresh_profile,
                               !.force_refresh_peers = force_refresh_peers]
        cached == IF user_id \in DOMAIN users THEN cached_profile_row(user_id) ELSE 0
    IN /\ run[r].pc \in {"idle", "done", "failed"}
       /\ run' = [run EXCEPT ![r] =
             IF user_id \notin DOMAIN users THEN run_raise(rec, "ValueError")
             ELSE IF ~force_refresh_profile /\ cached # 0
                  THEN enter_get_or_create_peers(
                           rec, cached_profile(user_id, user_profiles[cached]))
                  ELSE [rec EXCEPT !.pc = "get_user_by_handle"]]
       /\ UNCHANGED <<user_profiles, peer_matches, analyses, RunOthers>>

\* twitter.get_user_by_handle(user.x_handle) returns or raises; a None
\* result fails at user_data.get (AttributeError)
get_user_by_handle(r, out) ==
    LET rec == [run[r] EXCEPT !.calls = Append(@, "get_user_by_handle")]
    IN /\ run[r].pc = "get_user_by_handle"
       /\ run' = [run EXCEPT ![r] =
             IF out.kind = "raise" THEN run_raise(rec, out.error)
             ELSE IF out.kind = "none" THEN run_raise(rec, "AttributeError")
             ELSE [rec EXCEPT !.user_data = out.value,
                              !.pc = IF should_fetch_tweets(out.value[1].followers_count)
                                     THEN "get_user_tweets" ELSE "analyze_user"]]
       /\ UNCHANGED <<user_profiles, peer_matches, analyses, RunOthers>>

\* twitter.get_user_tweets(user.x_handle, max_results=40) returns or raises
get_user_tweets(r, out) ==
    LET rec == [run[r] EXCEPT !.calls = Append(@, "get_user_tweets")]
    IN /\ run[r].pc = "get_user_tweets"
       /\ run' = [run EXCEPT ![r] =
             IF out.kind = "raise" THEN run_raise(rec, out.error)
             ELSE [rec EXCEPT !.tweets = out.value, !.pc = "analyze_user"]]
       /\ UNCHANGED <<user_profiles, peer_matches, analyses, RunOthers>>

\* session.add(user_profile); session.commit(): the table after the insert
\* the user's earlier rows replaced by the new one
save_profile_mut(user_profile) ==
    LET keep == [i \in 1..Len(user_profiles) |->
                    user_profiles[i].user_id # user_profile.user_id]
        idx == SelectIdx(user_profiles, keep, 1)
    IN Append([k \in 1..Len(idx) |-> user_profiles[idx[k]]], user_profile)

save_profile(user_profile) == Append(user_profiles, user_profile)

\* profiler.analyze_user(user_data, tweets), then the profile is saved and
\* committed and _get_or_create_peers is entered.  analyze_user raises
\* ValueError before calling Grok when tweets are needed and missing, and
\* after it when the response has no 'handle'
\* the check for missing tweets left out
analyze_user_mut(r, out) ==
    LET user_data == run[r].user_data[1]
        rec == [run[r] EXCEPT !.calls = Append(@, "grok_profile")]
        profile_data == build_profile(user_data, out.value[1])
        user_profile == profile_row(run[r].user_id, profile_data)
        saved == [profile_data EXCEPT !.db_id = user_profile.id]
    IN /\ run[r].pc = "analyze_user"
       /\ IF out.kind = "raise"
          THEN /\ run' = [run EXCEPT ![r] = run_raise(rec, out.error)]
               /\ UNCHANGED user_profiles
          ELSE IF out.kind = "invalid"
          THEN /\ run' = [run EXCEPT ![r] = run_raise(rec, "ValueError")]
               /\ UNCHANGED user_profiles
          ELSE /\ user_profiles' = save_profile(user_profile)
               /\ run' = [run EXCEPT ![r] = enter_get_or_create_peers(rec, saved)]
       /\ UNCHANGED <<peer_matches, analyses, RunOthers>>

analyze_user(r, out) ==
    LET user_data == run[r].user_data[1]
        needs_tweets == should_fetch_tweets(user_data.followers_count)
        rec == [run[r] EXCEPT !.calls = Append(@, "grok_profile")]
        profile_data == build_profile(user_data, out.value[1])
        user_profile == profile_row(run[r].user_id, profile_data)
        saved == [profile_data EXCEPT !.db_id = user_profile.id]
    IN /\ run[r].pc = "analyze_user"
       /\ IF needs_tweets /\ run[r].tweets = <<>>
          THEN /\ run' = [run EXCEPT ![r] = run_raise(run[r], "ValueError")]
               /\ UNCHANGED user_profiles
          ELSE IF out.kind = "raise"
          THEN /\ run' = [run EXCEPT ![r] = run_raise(rec, out.error)]
               /\ UNCHANGED user_profiles
          ELSE IF out.kind = "invalid"
          THEN /\ run' = [run EXCEPT ![r] = run_raise(rec, "ValueError")]
               /\ UNCHANGED user_profiles
          ELSE /\ user_profiles' = save_profile(user_profile)
               /\ run' = [run EXCEPT ![r] = enter_get_or_create_peers(rec, saved)]
       /\ UNCHANGED <<peer_matches, analyses, RunOthers>>

\* matcher.find_peers(user_profile_data, count=5, save_to_db=False), then
\* the user's old peer_matches rows are deleted, the new ones added and
\* the transaction committed.  find_peers raises on an empty list
find_peers(r, out) ==
    LET rec == [run[r] EXCEPT !.calls = Append(@, "find_peers")]
        peer_profiles == top_peers(out.value, peer_count)
        kept == delete_peer_matches(run[r].user_id)
    IN /\ run[r].pc = "find_peers"
       /\ IF out.kind = "raise"
          THEN /\ run' = [run EXCEPT ![r] = run_raise(rec, out.error)]
               /\ UNCHANGED peer_matches
          ELSE IF out.value = <<>>
          THEN /\ run' = [run EXCEPT ![r] = run_raise(rec, "ValueError")]
               /\ UNCHANGED peer_matches
          ELSE /\ peer_matches' = kept \o
                     [k \in 1..Len(peer_profiles) |->
                         peer_match_row(run[r].user_id, peer_profiles[k])]
               /\ run' = [run EXCEPT ![r] =
                     [rec EXCEPT !.peers = peer_profiles, !.pc = "generate_insights"]]
       /\ UNCHANGED <<user_profiles, analyses, RunOthers>>

\* InsightsGenerator._validate_response
\* the check of the insights value left out
validate_response_mut(response) ==
    \A key \in required_keys : key \in response.keys

validate_response(response) ==
    /\ \A key \in required_keys : key \in response.keys
    /\ response.insights.is_list
    /\ response.insights.len # 0

\* "if not self._validate_response(response)" on the outcome of the Grok call
\* any parsed response accepted
insights_valid_mut(out) == out.kind # "raise"

insights_valid(out) == out.kind # "raise" /\ validate_response(out.value[1])

\* analysis_data.get('growth_score', 0)
growth_score_of(out) ==
    IF out.value = <<>> \/ "growth_score" \notin out.value[1].keys THEN 0
    ELSE out.value[1].growth_score

\* insights.generate_insights(user_profile_data, peer_profiles, 3), then
\* the Analysis row is added and committed and the run returns
\* the report of a stored analysis served again, without a call
generate_insights_mut(r, out) ==
    LET rec == IF analyses = <<>> THEN [run[r] EXCEPT !.calls = Append(@, "generate_insights")]
               ELSE run[r]
        analysis == [user_id |-> run[r].user_id,
                     user_profile_id |-> run[r].profile[1].db_id,
                     growth_score |-> growth_score_of(out)]
    IN /\ run[r].pc = "generate_insights"
       /\ insights_valid(out)
       /\ analyses' = Append(analyses, analysis)
       /\ run' = [run EXCEPT ![r] =
             [rec EXCEPT !.pc = "done",
                         !.result = <<[analysis_id |-> Len(analyses) + 1,
                                       analysis |-> out.value]>>]]
       /\ UNCHANGED <<user_profiles, peer_matches, RunOthers>>

generate_insights(r, out) ==
    LET rec == [run[r] EXCEPT !.calls = Append(@, "generate_insights")]
        analysis == [user_id |-> run[r].user_id,
                     user_profile_id |-> run[r].profile[1].db_id,
                     growth_score |-> growth_score_of(out)]
    IN /\ run[r].pc = "generate_insights"
       /\ IF out.kind = "raise"
          THEN /\ run' = [run EXCEPT ![r] = run_raise(rec, out.error)]
               /\ UNCHANGED analyses
          ELSE IF ~insights_valid(out)
          THEN /\ run' = [run EXCEPT ![r] = run_raise(rec, "ValueError")]
               /\ UNCHANGED analyses
          ELSE /\ analyses' = Append(analyses, analysis)
               /\ run' = [run EXCEPT ![r] =
                     [rec EXCEPT !.pc = "done",
                                 !.result = <<[analysis_id |-> Len(analyses) + 1,
                                               analysis |-> out.value]>>]]
       /\ UNCHANGED <<user_profiles, peer_matches, RunOthers>>

\* time passes
run_tick(d) ==
    /\ now' = now + d
    /\ UNCHANGED <<runVars, keyVars, callVars, poolVars, cacheVars>>

-----------------------------------------------------------------------------
(* GrokClient.complete_json                                                *)
(*                                                                         *)
(* A text is a sequence of one-character strings.  complete_json cleans    *)
(* the model's response and hands it to json.loads.  json.loads is modelled *)
(* on the JSON of the texts drawn here: arrays, objects, strings without   *)
(* escapes, non-negative integers, blanks between tokens.  A parsed value  *)
(* is the sequence of its tokens, numbers by their integer value.          *)

\* the longest text between the brackets of a drawn response
MaxInner == 5

Digits == {"0", "1", "2", "3", "4", "5", "6", "7", "8", "9"}

DigitVal(c) ==
    CASE c = "0" -> 0 [] c = "1" -> 1 [] c = "2" -> 2 [] c = "3" -> 3
      [] c = "4" -> 4 [] c = "5" -> 5 [] c = "6" -> 6 [] c = "7" -> 7
      [] c = "8" -> 8 [] OTHER -> 9

Quote == "\""

\* the backquote character of a markdown fence (written ~ here)
Backquote == "~"

FenceJson == <<Backquote, Backquote, Backquote, "j", "s", "o", "n">>
Fence == <<Backquote, Backquote, Backquote>>

\* the texts between the brackets: numbers, commas and quotes in any order
InnerChars == {"1", "2", ",", Quote}

InnerTexts == UNION {[1..k -> InnerChars] : k \in 0..MaxInner}

\* what the model puts before and behind the JSON text
JsonPrefixes == {<<>>, <<" ">>, Fence, FenceJson}
JsonSuffixes == {<<>>, <<" ">>, Fence}

\* an object with the number 1,250,000 and one with the string a,b
JsonSamples ==
    {<<"{", Quote, "v", Quote, ":", " ", "1", ",", "2", "5", "0", ",", "0", "0", "0", "}">>,
     <<"{", Quote, "s", Quote, ":", " ", Quote, "a", ",", "b", Quote, "}">>}

\* the responses self.complete(...) returns
JsonResponses ==
    {pre \o body \o post :
        pre \in JsonPrefixes, post \in JsonSuffixes,
        body \in {<<"[">> \o inner \o <<"]">> : inner \in InnerTexts} \cup JsonSamples}

\* str.startswith, str.endswith
startswith(s, p) == Len(s) >= Len(p) /\ SubSeq(s, 1, Len(p)) = p
endswith(s, p) == Len(s) >= Len(p) /\ SubSeq(s, Len(s) - Len(p) + 1, Len(s)) = p

RECURSIVE lstrip(_)
lstrip(s) == IF s # <<>> /\ Head(s) = " " THEN lstrip(Tail(s)) ELSE s

RECURSIVE rstrip(_)
rstrip(s) ==
    IF s # <<>> /\ s[Len(s)] = " " THEN rstrip(SubSeq(s, 1, Len(s) - 1)) ELSE s

\* str.strip()
strip(s) == rstrip(lstrip(s))

\* the three "if response_clean.startswith / endswith" statements
strip_fences(s) ==
    LET s1 == IF startswith(s, FenceJson) THEN SubSeq(s, 8, Len(s)) ELSE s
        s2 == IF startswith(s1, Fence) THEN SubSeq(s1, 4, Len(s1)) ELSE s1
    IN IF endswith(s2, Fence) THEN SubSeq(s2, 1, Len(s2) - 3) ELSE s2

RECURSIVE sub_digit_commas(_)
\* re.sub(r'(\d),(\d)', r'\1\2', s): the matches are found left to right
\* and do not overlap, the search going on behind each match
sub_digit_commas(s) ==
    IF Len(s) < 3 THEN s
    ELSE IF s[1] \in Digits /\ s[2] = "," /\ s[3] \in Digits
         THEN <<s[1], s[3]>> \o sub_digit_commas(SubSeq(s, 4, Len(s)))
         ELSE <<s[1]>> \o sub_digit_commas(Tail(s))

\* response_clean as it is handed to json.loads
clean_response(response) ==
    sub_digit_commas(strip(strip_fences(strip(response))))

\* a token of the JSON text
Tok(t, n, s) == [t |-> t, n |-> n, s |-> s]

JsonPunct == {"[", "]", "{", "}", ",", ":"}

RECURSIVE digit_run(_)
\* the length of the digits s begins with
digit_run(s) == IF s # <<>> /\ Head(s) \in Digits THEN 1 + digit_run(Tail(s)) ELSE 0

RECURSIVE to_int(_)
to_int(s) == IF s = <<>> THEN 0 ELSE 10 * to_int(SubSeq(s, 1, Len(s) - 1)) + DigitVal(s[Len(s)])

RECURSIVE quote_at(_, _)
\* the position of the first quote of s at or behind i, 0 when there is none
quote_at(s, i) ==
    IF i > Len(s) THEN 0 ELSE IF s[i] = Quote THEN i ELSE quote_at(s, i + 1)

RECURSIVE tokenize(_)
\* the scanner of json.loads; an "error" token ends the scan where the text
\* is no JSON (a number with a leading zero, an open string, a stray character)
tokenize(s) ==
    IF s = <<>> THEN <<>>
    ELSE LET c == Head(s) IN
         IF c = " " THEN tokenize(Tail(s))
         ELSE IF c \in JsonPunct THEN <<Tok(c, 0, <<>>)>> \o tokenize(Tail(s))
         ELSE IF c \in Digits
         THEN LET k == digit_run(s) IN
              IF c = "0" /\ k > 1 THEN <<Tok("error", 0, <<>>)>>
              ELSE <<Tok("num", to_int(SubSeq(s, 1, k)), <<>>)>>
                       \o tokenize(SubSeq(s, k + 1, Len(s)))
         ELSE IF c = Quote
         THEN LET k == quote_at(s, 2) IN
              IF k = 0 THEN <<Tok("error", 0, <<>>)>>
              ELSE <<Tok("str", 0, SubSeq(s, 2, k - 1))>>
                       \o tokenize(SubSeq(s, k + 1, Len(s)))
         ELSE <<Tok("error", 0, <<>>)>>

\* the kind of token i of toks, "end" behind the last one
tok_at(toks, i) == IF i >= 1 /\ i <= Len(toks) THEN toks[i].t ELSE "end"

RECURSIVE parse_value(_, _), parse_elements(_, _), parse_members(_, _)
\* the position behind the JSON value that begins at token i, 0 when none does
parse_value(toks, i) ==
    CASE tok_at(toks, i) \in {"num", "str"} -> i + 1
      [] tok_at(toks, i) = "[" ->
            IF tok_at(toks, i + 1) = "]" THEN i + 2 ELSE parse_elements(toks, i + 1)
      [] tok_at(toks, i) = "{" ->
            IF tok_at(toks, i + 1) = "}" THEN i + 2 ELSE parse_members(toks, i + 1)
      [] OTHER -> 0

\* the elements of an array from token i up to its closing bracket
parse_elements(toks, i) ==
    LET j == parse_value(toks, i) IN
    IF j = 0 THEN 0
    ELSE IF tok_at(toks, j) = "," THEN parse_elements(toks, j + 1)
    ELSE IF tok_at(toks, j) = "]" THEN j + 1
    ELSE 0

\* the members of an object from token i up to its closing brace
parse_members(toks, i) ==
    IF tok_at(toks, i) # "str" \/ tok_at(toks, i + 1) # ":" THEN 0
    ELSE LET j == parse_value(toks, i + 2) IN
         IF j = 0 THEN 0
         ELSE IF tok_at(toks, j) = "," THEN parse_members(toks, j + 1)
         ELSE IF tok_at(toks, j) = "}" THEN j + 1
         ELSE 0

\* json.loads(text): the parsed value, or JSONDecodeError (ok = FALSE)
grok_json_loads(text) ==
    LET toks == tokenize(text)
    IN IF parse_value(toks, 1) = Len(toks) + 1
       THEN [ok |-> TRUE, value |-> toks]
       ELSE [ok |-> FALSE, value |-> <<>>]

JsonIdle == [pc |-> "idle", response |-> <<>>, response_clean |-> <<>>, value |-> <<>>]

\* complete_json on the response held in jsoncall: the cleaning, then
\* json.loads; a JSONDecodeError is raised as GrokAPIError
complete_json ==
    LET response_clean == clean_response(jsoncall.response)
        parsed == grok_json_loads(response_clean)
    IN /\ jsoncall.pc = "called"
       /\ jsoncall' = [jsoncall EXCEPT
                          !.pc = IF parsed.ok THEN "returned" ELSE "raised",
                          !.response_clean = response_clean,
                          !.value = parsed.value]
       /\ UNCHANGED <<now, call, ledger, keyVars, poolVars, cacheVars, runVars>>

-----------------------------------------------------------------------------
(* CostTracker                                                             *)
(*                                                                         *)
(* add_tweets_call computes its charge in Python floats.  A float is held  *)
(* here as the 53 bits of its significand, most significant first, and the *)
(* number of those bits that stand behind the binary point; division and   *)
(* multiplication round to nearest, ties to even, as IEEE 754 doubles do.  *)

\* the significand bits of a double
MantBits == 53

RECURSIVE nat_bits(_)
\* the binary digits of a natural number, <<>> for 0
nat_bits(n) == IF n = 0 THEN <<>> ELSE Append(nat_bits(n \div 2), n % 2)

RECURSIVE bits_nat(_)
bits_nat(bits) ==
    IF bits = <<>> THEN 0
    ELSE 2 * bits_nat(SubSeq(bits, 1, Len(bits) - 1)) + bits[Len(bits)]

RECURSIVE inc_bits(_)
\* bits + 1 (one digit longer when every digit is 1)
inc_bits(bits) ==
    IF bits = <<>> THEN <<1>>
    ELSE IF bits[Len(bits)] = 0 THEN [bits EXCEPT ![Len(bits)] = 1]
    ELSE Append(inc_bits(SubSeq(bits, 1, Len(bits) - 1)), 0)

\* round to nearest, ties to even: kept are the leading digits, round_bit
\* the first dropped digit, sticky whether a later dropped digit is not 0;
\* frac counts the kept digits behind the point
round_even(kept, frac, round_bit, sticky) ==
    IF round_bit = 1 /\ (sticky \/ kept[Len(kept)] = 1)
    THEN LET up == inc_bits(kept)
         IN IF Len(up) > Len(kept)
            THEN [m |-> SubSeq(up, 1, Len(kept)), frac |-> frac - 1]
            ELSE [m |-> up, frac |-> frac]
    ELSE [m |-> kept, frac |-> frac]

RECURSIVE div_digits(_, _, _, _)
\* long division: the digits of the quotient behind those in sig, with
\* remainder r over den, until MantBits significant digits are there
div_digits(r, den, sig, frac) ==
    IF Len(sig) = MantBits
    THEN round_even(sig, frac, IF 2 * r >= den THEN 1 ELSE 0,
                    (2 * r) % den # 0)
    ELSE LET bit == IF 2 * r >= den THEN 1 ELSE 0
         IN div_digits(2 * r - bit * den, den,
                       IF sig = <<>> /\ bit = 0 THEN sig ELSE Append(sig, bit),
                       frac + 1)

\* float(n) / float(den) for naturals n >= 1, den >= 1 below 2 ** 31
float_div(n, den) ==
    div_digits(n % den, den, nat_bits(n \div den), 0)

RECURSIVE mul_digits(_, _, _)
\* the digits (least significant first) of digits * k + carry
mul_digits(lsb_first, k, carry) ==
    IF lsb_first = <<>> THEN Reverse(nat_bits(carry))
    ELSE LET t == Head(lsb_first) * k + carry
         IN <<t % 2>> \o mul_digits(Tail(lsb_first), k, t \div 2)

\* x * float(k): the exact product rounded to MantBits digits
float_mul(x, k) ==
    LET product == Reverse(mul_digits(Reverse(x.m), k, 0))
        dropped == Len(product) - MantBits
    IN IF dropped <= 0 THEN [m |-> product, frac |-> x.frac]
       ELSE round_even(SubSeq(product, 1, MantBits), x.frac - dropped,
                       product[MantBits + 1],
                       \E i \in (MantBits + 2)..Len(product) : product[i] = 1)

\* int(x) for x >= 0 below 2 ** 31: the digits before the point
float_int(x) ==
    IF x.frac >= Len(x.m) THEN 0
    ELSE bits_nat(SubSeq(x.m, 1, Len(x.m) - x.frac))

\* "credits = int((tweet_count / 1000) * 15000)", "if credits < 15: credits = 15"
tweet_credits(tweet_count) ==
    LET credits == IF tweet_count = 0 THEN 0
                   ELSE float_int(float_mul(float_div(tweet_count, 1000), 15000))
    IN IF credits < 15 THEN 15 ELSE credits

\* class attributes of CostTracker, in credits
TWITTER_USER_INFO == 18
TWITTER_SEARCH == 20

\* the add calls a ledger takes in the model
MaxLedgerCalls == 4

\* len(tweets_raw) handed to add_tweets_call
TweetCounts == {0, 1, 40, 1000, 1001}

\* the token usage a Grok response reports
TokenArgs == {<<0, 0>>, <<1200, 300>>}

\* CostTracker.__init__; history lists the add calls made, for the claims
LedgerZero ==
    [twitter_credits |-> 0, grok_input_tokens |-> 0, grok_output_tokens |-> 0,
     api_calls |-> [user_info |-> 0, tweets |-> 0, search |-> 0, grok |-> 0],
     history |-> <<>>]

\* one add call as the history lists it
LedgerCall(kind, tweet_count, input_tokens, output_tokens) ==
    [kind |-> kind, tweet_count |-> tweet_count,
     input_tokens |-> input_tokens, output_tokens |-> output_tokens]

LedgerOthers == <<now, call, jsoncall, keyVars, poolVars, cacheVars, runVars>>

\* the ledger after add_user_info_call()
user_info_added ==
    [ledger EXCEPT !.twitter_credits = @ + TWITTER_USER_INFO,
                   !.api_calls.user_info = @ + 1,
                   !.history = Append(@, LedgerCall("user_info", 0, 0, 0))]

\* the ledger after add_tweets_call(tweet_count)
tweets_added(tweet_count) ==
    [ledger EXCEPT !.twitter_credits = @ + tweet_credits(tweet_count),
                   !.api_calls.tweets = @ + 1,
                   !.history = Append(@, LedgerCall("tweets", tweet_count, 0, 0))]

\* the ledger after add_search_call()
search_added ==
    [ledger EXCEPT !.twitter_credits = @ + TWITTER_SEARCH,
                   !.api_calls.search = @ + 1,
                   !.history = Append(@, LedgerCall("search", 0, 0, 0))]

\* the ledger after add_grok_call(input_tokens, output_tokens)
grok_added(input_tokens, output_tokens) ==
    [ledger EXCEPT !.grok_input_tokens = @ + input_tokens,
                   !.grok_output_tokens = @ + output_tokens,
                   !.api_calls.grok = @ + 1,
                   !.history = Append(@, LedgerCall("grok", 0, input_tokens, output_tokens))]

\* CostTracker.add_user_info_call
add_user_info_call ==
    /\ ledger' = user_info_added
    /\ UNCHANGED LedgerOthers

\* CostTracker.add_tweets_call(tweet_count)
add_tweets_call(tweet_count) ==
    /\ ledger' = tweets_added(tweet_count)
    /\ UNCHANGED LedgerOthers

\* CostTracker.add_search_call
\* the search also counted as a user info call
add_search_call_mut ==
    /\ ledger' = [search_added EXCEPT !.api_calls.user_info = @ + 1]
    /\ UNCHANGED LedgerOthers

add_search_call ==
    /\ ledger' = search_added
    /\ UNCHANGED LedgerOthers

\* CostTracker.add_grok_call(input_tokens, output_tokens)
add_grok_call(input_tokens, output_tokens) ==
    /\ ledger' = grok_added(input_tokens, output_tokens)
    /\ UNCHANGED LedgerOthers

\* The clients with a CostTracker.  GrokClient._make_request records the
\* usage in the attempt that succeeds; the TwitterAPIClient methods record
\* after _make_request has returned, and then return themselves (call.pc
\* "idle").

\* the token usage and the tweet counts the tracked calls meet
CallTokens == {<<1200, 300>>}
CallTweetCounts == {0, 40}

\* GrokClient._make_request(..., cost_tracker) on the response resp
grok_make_request(resp, tokens) ==
    /\ call.pc = "request"
    /\ call.client = "grok"
    /\ call' = request_outcome(resp)
    /\ ledger' = IF call'.pc = "returned" THEN grok_added(tokens[1], tokens[2])
                 ELSE ledger
    /\ UNCHANGED <<now, jsoncall, keyVars, poolVars, cacheVars, runVars>>

\* get_user_by_handle after _make_request returned: the cost is recorded,
\* then the user dict or None is returned
get_user_by_handle_tracked ==
    /\ call.pc = "returned"
    /\ call.client = "twitter"
    /\ ledger' = user_info_added
    /\ call' = [call EXCEPT !.pc = "idle"]
    /\ UNCHANGED <<now, jsoncall, keyVars, poolVars, cacheVars, runVars>>

\* search_users after _make_request returned
search_users_tracked ==
    /\ call.pc = "returned"
    /\ call.client = "twitter"
    /\ ledger' = search_added
    /\ call' = [call EXCEPT !.pc = "idle"]
    /\ UNCHANGED <<now, jsoncall, keyVars, poolVars, cacheVars, runVars>>

\* get_user_tweets after _make_request returned; has_tweets: the response
\* holds data.tweets, a list of tweet_count tweets (else [] is returned)
get_user_tweets_tracked(has_tweets, tweet_count) ==
    /\ call.pc = "returned"
    /\ call.client = "twitter"
    /\ ledger' = IF has_tweets THEN tweets_added(tweet_count) ELSE ledger
    /\ call' = [call EXCEPT !.pc = "idle"]
    /\ UNCHANGED <<now, jsoncall, keyVars, poolVars, cacheVars, runVars>>

-----------------------------------------------------------------------------
(* Specifications                                                           *)

Init ==
    /\ now = 0
    /\ keycall = KeyIdle
    /\ call = CallIdle
    /\ peer_pools = {}
    /\ pool_ids = 0
    /\ psess = [r \in Runners |-> SessIdle]
    /\ tweets_cache = <<>>
    /\ cret = CacheRetIdle
    /\ user_profiles = <<>>
    /\ peer_matches = <<>>
    /\ analyses = <<>>
    /\ run = [r \in Runners |-> RunIdle]
    /\ jsoncall = JsonIdle
    /\ ledger = LedgerZero

\* generate_pool_key applied to every niche and follower count of the bounds
InitKey ==
    /\ \E n \in Niches, f \in 0..MaxFollowers :
          keycall = [KeyIdle EXCEPT !.niche = n, !.followers = f]
    /\ now = 0
    /\ call = CallIdle
    /\ peer_pools = {}
    /\ pool_ids = 0
    /\ psess = [r \in Runners |-> SessIdle]
    /\ tweets_cache = <<>>
    /\ cret = CacheRetIdle
    /\ user_profiles = <<>>
    /\ peer_matches = <<>>
    /\ analyses = <<>>
    /\ run = [r \in Runners |-> RunIdle]
    /\ jsoncall = JsonIdle
    /\ ledger = LedgerZero

NextKey == call_generate_pool_key

SpecKey == InitKey /\ [][NextKey]_vars

\* complete_json applied to every response of the bounds
InitJson ==
    /\ \E response \in JsonResponses :
          jsoncall = [JsonIdle EXCEPT !.pc = "called", !.response = response]
    /\ now = 0
    /\ keycall = KeyIdle
    /\ call = CallIdle
    /\ peer_pools = {}
    /\ pool_ids = 0
    /\ psess = [r \in Runners |-> SessIdle]
    /\ tweets_cache = <<>>
    /\ cret = CacheRetIdle
    /\ user_profiles = <<>>
    /\ peer_matches = <<>>
    /\ analyses = <<>>
    /\ run = [r \in Runners |-> RunIdle]
    /\ ledger = LedgerZero

NextJson == complete_json

SpecJson == InitJson /\ [][NextJson]_vars

\* the batches that name no handle twice, added under one explicit pool key
UpsertAdds ==
    {b \in Batches : b # <<>> /\ \A i, j \in 1..Len(b) : b[i].handle = b[j].handle => i = j}

UpsertKey == "finance_800-6000"

\* one manager re-sighting peers that were used and marked invalid meanwhile
NextPoolUpsert ==
    \/ \E peers \in UpsertAdds : pool_add_begin("r1", peers, "finance", UpsertKey)
    \/ pool_add_peer("r1")
    \/ pool_add_commit("r1")
    \/ pool_add_error("r1")
    \/ \E handle \in PeerHandles, fault \in BOOLEAN :
          /\ SumOver([row \in peer_pools |-> row.times_used], peer_pools) < MaxUsed
          /\ increment_usage("r1", <<handle>>, UpsertKey, fault)
    \/ \E handle \in PeerHandles, fault \in BOOLEAN :
          mark_invalid("r1", handle, UpsertKey, fault)
    \/ \E d \in TickDays : now + 24 * d <= 24 * MaxPoolDays /\ pool_tick_days(d)

SpecPoolUpsert == Init /\ [][NextPoolUpsert]_vars

\* no call has been made on the tweet cache / on the peer pool
CacheUntouched == tweets_cache = <<>> /\ cret = CacheRetIdle
PoolUntouched ==
    peer_pools = {} /\ pool_ids = 0 /\ psess = [r \in Runners |-> SessIdle]

\* the maintenance calls of one manager between additions to its table; the
\* two managers share no table, so each is followed on its own
NextCleanup ==
    \/ \E tweets \in TweetLists, fault \in BOOLEAN :
          /\ PoolUntouched
          /\ Len(tweets_cache) < MaxCacheRows
          /\ now < MaxCacheTime
          /\ cache_tweets(<<"a">>, tweets, fault)
    \/ \E d \in DaysArgs, fault \in BOOLEAN :
          PoolUntouched /\ cleanup_old_cache(d, fault)
    \/ PoolUntouched /\ cache_tick
    \/ \E peers \in {b \in DistinctBatches : Len(b) = 1} :
          /\ CacheUntouched
          /\ PoolLoad + Len(peers) <= MaxPoolRows
          /\ pool_add_begin("r1", peers, "finance", "")
    \/ pool_add_peer("r1")
    \/ pool_add_commit("r1")
    \/ pool_add_error("r1")
    \/ \E handle \in PeerHandles, fault \in BOOLEAN :
          /\ CacheUntouched
          /\ mark_invalid("r1", handle, generate_pool_key("finance", 2000), fault)
    \/ \E d \in PoolDaysArgs, fault \in BOOLEAN :
          CacheUntouched /\ cleanup_stale_peers("r1", d, fault)
    \/ \E fault \in BOOLEAN : CacheUntouched /\ cleanup_invalid_peers("r1", fault)
    \/ \E d \in TickDays : now + 24 * d <= 24 * MaxPoolDays /\ pool_tick_days(d)

SpecCleanup == Init /\ [][NextCleanup]_vars

\* the handle lists of the concurrent increment_usage calls
UsageLists == {<<"ann">>, <<"ann", "bob">>}

\* one batch of peers is added to a pool; then the runners call
\* increment_usage at the same time
NextUsageConc ==
    \/ \E peers \in DistinctBatches \ {<<>>} :
          /\ pool_ids = 0
          /\ \A r \in Runners : psess[r].pc = "idle"
          /\ pool_add_begin("r1", peers, "finance", "")
    \/ pool_add_peer("r1")
    \/ pool_add_commit("r1")
    \/ \E r \in Runners, handles \in UsageLists :
          /\ pool_ids > 0
          /\ \A row \in peer_pools :
                row.times_used + Cardinality({q \in Runners : psess[q].pc = "inc_loop"})
                   < MaxUsed
          /\ usage_begin(r, handles, generate_pool_key("finance", 2000))
    \/ \E r \in Runners : usage_load(r)
    \/ \E r \in Runners : usage_commit(r)
    \/ \E r \in Runners : usage_error(r)

SpecUsageConc == Init /\ [][NextUsageConc]_vars

\* the calls of clients that share one CostTracker
MaxTrackedCalls == 2

NextCostCall ==
    \/ \E c \in Clients :
          /\ Len(ledger.history) < MaxTrackedCalls
          /\ call_begin(c)
    \/ \E resp \in Responses : call.client = "twitter" /\ make_request(resp)
    \/ \E resp \in Responses, tokens \in CallTokens : grok_make_request(resp, tokens)
    \/ get_user_by_handle_tracked
    \/ search_users_tracked
    \/ \E has_tweets \in BOOLEAN, tweet_count \in CallTweetCounts :
          get_user_tweets_tracked(has_tweets, tweet_count)

SpecCostCall == Init /\ [][NextCostCall]_vars

\* the add calls of one CostTracker, in any order
NextCost ==
    \/ Len(ledger.history) < MaxLedgerCalls /\ add_user_info_call
    \/ \E tweet_count \in TweetCounts :
          Len(ledger.history) < MaxLedgerCalls /\ add_tweets_call(tweet_count)
    \/ Len(ledger.history) < MaxLedgerCalls /\ add_search_call
    \/ \E tokens \in TokenArgs :
          Len(ledger.history) < MaxLedgerCalls /\ add_grok_call(tokens[1], tokens[2])

SpecCost == Init /\ [][NextCost]_vars

NextCall ==
    \/ \E c \in Clients : call_begin(c)
    \/ \E resp \in Responses : make_request(resp)

SpecCall == Init /\ [][NextCall]_vars

\* add_peers_to_pool called by one runner at a time, on any batch
NextPoolSeq ==
    \/ \E peers \in Batches, niche \in Niches, pool_key \in PoolKeyArgs :
          /\ PoolLoad + Len(peers) <= MaxPoolRows
          /\ pool_add_begin("r1", peers, niche, pool_key)
    \/ pool_add_peer("r1")
    \/ pool_add_commit("r1")
    \/ pool_add_error("r1")
    \/ pool_tick

SpecPoolSeq == Init /\ [][NextPoolSeq]_vars

\* add_peers_to_pool called by concurrent runners, each on a batch that
\* names no handle twice
NextPoolConc ==
    \/ \E r \in Runners, peers \in DistinctBatches, niche \in Niches :
          /\ PoolLoad + Len(peers) <= MaxConcRows
          /\ pool_add_begin(r, peers, niche, "")
    \/ \E r \in Runners : pool_add_peer(r)
    \/ \E r \in Runners : pool_add_commit(r)
    \/ \E r \in Runners : pool_add_error(r)
    \/ pool_tick

SpecPoolConc == Init /\ [][NextPoolConc]_vars

\* the pool keys of the niches for accounts of 2000 followers
UsePoolKeys == {generate_pool_key(n, 2000) : n \in Niches}

\* the add_peers_to_pool calls made: the batches for niche finance that
\* begin with ann, and the batch of ann alone for niche tech
UseAdds ==
    {[peers |-> b, niche |-> "finance"] :
        b \in {d \in DistinctBatches : d # <<>> /\ d[1].handle = "ann"}}
    \cup {[peers |-> b, niche |-> "tech"] :
        b \in {d \in DistinctBatches : Len(d) = 1 /\ d[1].handle = "ann"}}

\* one manager adding to, reading and maintaining the pool
NextPoolUse ==
    \/ \E add \in UseAdds : pool_add_begin("r1", add.peers, add.niche, "")
    \/ pool_add_peer("r1")
    \/ pool_add_commit("r1")
    \/ pool_add_error("r1")
    \/ \E niche \in Niches, followers \in FollowerArgs, count \in CountArgs,
          require_valid \in BOOLEAN, fault \in BOOLEAN :
          get_peers_from_pool("r1", niche, followers, count, require_valid, fault)
    \/ \E handles \in HandleLists, pool_key \in UsePoolKeys, fault \in BOOLEAN :
          /\ SumOver([row \in peer_pools |-> row.times_used], peer_pools)
                + Len(handles) <= MaxUsed
          /\ increment_usage("r1", handles, pool_key, fault)
    \/ \E handle \in PeerHandles, pool_key \in UsePoolKeys, fault \in BOOLEAN :
          mark_invalid("r1", handle, pool_key, fault)
    \/ \E d \in TickDays : now + 24 * d <= 24 * MaxPoolDays /\ pool_tick_days(d)

SpecPoolUse == Init /\ [][NextPoolUse]_vars

NextCache ==
    \/ \E h \in HandleArgs, fault \in BOOLEAN : get_cached_tweets(h, fault)
    \/ \E h \in HandleArgs, tweets \in TweetLists, fault \in BOOLEAN :
          /\ Len(tweets_cache) < MaxCacheRows
          /\ now < MaxCacheTime
          /\ cache_tweets(h, tweets, fault)
    \/ \E h \in HandleArgs, fault \in BOOLEAN : invalidate_cache(h, fault)
    \/ \E d \in DaysArgs, fault \in BOOLEAN : cleanup_old_cache(d, fault)
    \/ cache_tick

SpecCache == Init /\ [][NextCache]_vars

\* one service instance running analyses one after another
NextRun ==
    \/ \E user_id \in UserIdArgs, fp \in BOOLEAN, fpeers \in BOOLEAN :
          /\ Len(user_profiles) < MaxProfiles
          /\ Len(analyses) < MaxAnalyses
          /\ run_full_analysis("r1", user_id, fp, fpeers)
    \/ \E out \in UserOutcomes : get_user_by_handle("r1", out)
    \/ \E out \in TweetOutcomes : get_user_tweets("r1", out)
    \/ \E out \in ProfileOutcomes : analyze_user("r1", out)
    \/ \E out \in PeerOutcomes : find_peers("r1", out)
    \/ \E out \in InsightOutcomes : generate_insights("r1", out)
    \/ \E d \in TickHours : now + d <= MaxRunTime /\ run_tick(d)

SpecRun == Init /\ [][NextRun]_vars

\* a pool batch naming the peer Grok returns for the user
RunPoolAdds ==
    {<<[handle |-> <<"p">>, followers_count |-> 2000, estimated_30d_growth |-> 100]>>}

\* the pool is filled by add_peers_to_pool before the first analysis run
\* starts; then run_full_analysis runs as in SpecRun
NextRunPool ==
    \/ \E peers \in RunPoolAdds :
          /\ run["r1"].pc = "idle"
          /\ pool_add_begin("r1", peers, "tech", "")
    \/ pool_add_peer("r1")
    \/ pool_add_commit("r1")
    \/ pool_add_error("r1")
    \/ \E fp \in BOOLEAN, fpeers \in BOOLEAN :
          /\ psess["r1"].pc = "idle"
          /\ Len(user_profiles) < MaxProfiles
          /\ Len(analyses) < MaxAnalyses
          /\ run_full_analysis("r1", "u1", fp, fpeers)
    \/ \E out \in UserOutcomes : get_user_by_handle("r1", out)
    \/ \E out \in TweetOutcomes : get_user_tweets("r1", out)
    \/ \E out \in ProfileOutcomes : analyze_user("r1", out)
    \/ \E out \in PeerOutcomes : find_peers("r1", out)
    \/ \E out \in InsightOutcomes : generate_insights("r1", out)
    \/ \E d \in TickHours : now + d <= MaxRunTime /\ run_tick(d)

SpecRunPool == Init /\ [][NextRunPool]_vars

-----------------------------------------------------------------------------
(* Claims                                                                   *)

\* C1: when every response of an external call is HTTP 429, the call goes on
\* retrying while fewer than max_retries + 1 requests were sent, and at the
\* (max_retries + 1)-th 429 it ends in the terminal RateLimited failure after
\* exactly max_retries retries; it never sends a further request.
AllRateLimited ==
    \A i \in 1..Len(call.responses) : call.responses[i] = [kind |-> "http", status |-> 429]

C1_RetryBound ==
    (call.pc # "idle" /\ AllRateLimited) =>
        /\ Len(call.responses) <= max_retries(call.client) + 1
        /\ Len(call.responses) <= max_retries(call.client) =>
              /\ call.pc = "request"
              /\ call.retry_count = Len(call.responses)
        /\ Len(call.responses) = max_retries(call.client) + 1 =>
              /\ call.pc = "raised"
              /\ call.error = "RateLimited"
              /\ call.retry_count = max_retries(call.client)

C1_Witness ==
    /\ call.pc = "raised"
    /\ call.error = "RateLimited"
    /\ AllRateLimited
    /\ Len(call.responses) = 4
    /\ call.client = "grok"

\* C6: for every follower count f >= 0 the pool key is
\* niche_<low>-<high>, with low and high the floor of f times the tier's
\* multipliers ((0.3, 5.0) below 1000, (0.4, 3.0) for 1000..4999, (0.5, 2.5)
\* for 5000..9999, (0.5, 2.0) from 10000), each rounded down to a multiple
\* of 100.
TierLow(f)  == IF f < 1000 THEN 3 ELSE IF f < 5000 THEN 4 ELSE 5
TierHigh(f) == IF f < 1000 THEN 50 ELSE IF f < 5000 THEN 30 ELSE IF f < 10000 THEN 25 ELSE 20
FloorTo100(x) == x - (x % 100)
TableLow(f)  == FloorTo100((f * TierLow(f)) \div 10)
TableHigh(f) == FloorTo100((f * TierHigh(f)) \div 10)

C7_Claimed ==
    (keycall.done /\ keycall.niche = "finance" /\ keycall.followers = 5000) =>
        keycall.pool_key = "finance_2000-15000"

\* C7 (amended): for 5,000 followers and niche "finance" the pool key is
\* "finance_2500-12500": 5000 lies in the 5000..9999 tier, whose multipliers
\* are 0.5 and 2.5.
C7_PoolKey5000 ==
    (keycall.done /\ keycall.niche = "finance" /\ keycall.followers = 5000) =>
        keycall.pool_key = "finance_2500-12500"

C7_Witness ==
    keycall.done /\ keycall.niche = "finance" /\ keycall.followers = 5000

\* the band of follower count f, as generate_pool_key computes it
LowOf(f)  == round_100(min_range(f))
HighOf(f) == round_100(max_range(f))

TierBoundaries == {1000, 5000, 10000}

\* highBound/lowBound at the boundary b is strictly below the ratio at b - 1
\* (cross-multiplied; both low bounds are positive there)
RatioDropsAt(b) ==
    /\ LowOf(b - 1) > 0
    /\ LowOf(b) > 0
    /\ HighOf(b) * LowOf(b - 1) < HighOf(b - 1) * LowOf(b)

MultipleOf100(x) == x >= 0 /\ x % 100 = 0

\* C8 (as claimed): for all f, lowBound < highBound, both bounds are
\* non-negative multiples of 100, and the ratio highBound/lowBound strictly
\* decreases as f crosses each tier boundary.
C8_Claimed ==
    keycall.done =>
        /\ keycall.min_range < keycall.max_range
        /\ MultipleOf100(keycall.min_range)
        /\ MultipleOf100(keycall.max_range)
        /\ (keycall.followers + 1) \in TierBoundaries =>
              /\ keycall.min_range > 0
              /\ LowOf(keycall.followers + 1) > 0
              /\ HighOf(keycall.followers + 1) * keycall.min_range
                    < keycall.max_range * LowOf(keycall.followers + 1)

\* C8 (amended): for all f >= 20, lowBound < highBound (for f < 20 both
\* bounds are 0); for all f >= 0 both bounds are non-negative multiples of
\* 100; and the ratio highBound/lowBound strictly decreases as f crosses
\* each tier boundary (from f = boundary - 1 to f = boundary).
C8_BandShape ==
    keycall.done =>
        /\ keycall.followers >= 20 => keycall.min_range < keycall.max_range
        /\ keycall.followers < 20 => (keycall.min_range = 0 /\ keycall.max_range = 0)
        /\ MultipleOf100(keycall.min_range)
        /\ MultipleOf100(keycall.max_range)
        /\ (keycall.followers + 1) \in TierBoundaries =>
              /\ keycall.min_range > 0
              /\ LowOf(keycall.followers + 1) > 0
              /\ HighOf(keycall.followers + 1) * keycall.min_range
                    < keycall.max_range * LowOf(keycall.followers + 1)

C8_Witness ==
    /\ keycall.done
    /\ keycall.followers = 9999
    /\ keycall.min_range = 4900
    /\ keycall.max_range = 24900

\* the stored rows of one (pool_key, handle)
PoolEntries(pool_key, handle) ==
    {row \in peer_pools : row.pool_key = pool_key /\ row.handle = handle}

\* C2 (as claimed): after any sequence of add_peers_to_pool calls the pool
\* holds at most one entry per (pool_key, handle).
C2_Claimed ==
    \A x \in peer_pools, y \in peer_pools :
        (x.pool_key = y.pool_key /\ x.handle = y.handle) => x.id = y.id

\* C3 (as claimed): when the concurrent runs that add the same handle to the
\* same pool key have all committed, the pool holds exactly one row for that
\* (pool_key, handle), never two.
C3_Claimed ==
    (\A r \in Runners : psess[r].pc = "idle") =>
        \A row \in peer_pools :
            Cardinality(PoolEntries(row.pool_key, row.handle)) = 1

\* the stored entries of a handle, and the one put last (greatest fetched_at)
EntriesOf(handle) ==
    {i \in 1..Len(tweets_cache) : tweets_cache[i].x_handle = handle}

IsLastPut(i, handle) ==
    /\ i \in EntriesOf(handle)
    /\ \A j \in EntriesOf(handle) : tweets_cache[j].fetched_at <= tweets_cache[i].fetched_at

\* C9: an entry put at time t, with no newer entry for its handle, is
\* returned by every get at a time strictly before t + ttl_hours, and every
\* get at or after t + ttl_hours is a MISS.
C9_Freshness ==
    [][\A h \in HandleArgs, i \in 1..Len(tweets_cache) :
          (get_cached_tweets(h, FALSE) /\ IsLastPut(i, normalize_handle(h))) =>
              /\ now < tweets_cache[i].fetched_at + ttl_hours =>
                    (cret'.hit /\ cret'.value = tweets_cache[i].tweet_data.json)
              /\ now >= tweets_cache[i].fetched_at + ttl_hours => ~cret'.hit
      ]_vars

C9_Witness ==
    /\ cret.op = "get"
    /\ ~cret.hit
    /\ \E i \in 1..Len(tweets_cache) :
          /\ IsLastPut(i, normalize_handle(cret.handle))
          /\ tweets_cache[i].fetched_at + ttl_hours = now

\* the entries of a handle younger than the TTL at the time of a get
YoungOf(handle) ==
    {i \in EntriesOf(handle) : now - tweets_cache[i].fetched_at < ttl_hours}

\* C10: every put adds exactly one new entry (the normalized handle, the
\* posts, the time of the put) and leaves all existing entries unchanged;
\* and a get returns the posts of the entry put last among the entries of
\* its handle that are younger than the TTL (a MISS when there is none).
C10_AppendOnly ==
    /\ [][\A h \in HandleArgs, tweets \in TweetLists :
            cache_tweets(h, tweets, FALSE) =>
               /\ Len(tweets_cache') = Len(tweets_cache) + 1
               /\ \A i \in 1..Len(tweets_cache) : tweets_cache'[i] = tweets_cache[i]
               /\ tweets_cache'[Len(tweets_cache')].x_handle = normalize_handle(h)
               /\ tweets_cache'[Len(tweets_cache')].tweet_data.json = tweets
               /\ tweets_cache'[Len(tweets_cache')].fetched_at = now
        ]_vars
    /\ [][\A h \in HandleArgs :
            get_cached_tweets(h, FALSE) =>
               LET young == YoungOf(normalize_handle(h))
               IN IF young = {} THEN ~cret'.hit
                  ELSE /\ cret'.hit
                       /\ \E i \in young :
                             /\ \A j \in young : j <= i
                             /\ cret'.value = tweets_cache[i].tweet_data.json
        ]_vars

\* a get answered with the posts of the second of two entries of one handle
C10_Witness ==
    /\ cret.op = "get"
    /\ cret.hit
    /\ Len(tweets_cache) = 2
    /\ tweets_cache[1].x_handle = tweets_cache[2].x_handle
    /\ tweets_cache[1].x_handle = normalize_handle(cret.handle)
    /\ tweets_cache[1].tweet_data # tweets_cache[2].tweet_data
    /\ cret.value = tweets_cache[2].tweet_data.json
    /\ now - tweets_cache[1].fetched_at < ttl_hours

\* the positions in the calls of run r at which collaborator `name` is invoked
CallPos(r, name) == {i \in 1..Len(run[r].calls) : run[r].calls[i] = name}

\* C4: in a run that does not force a peer refresh, AI peer discovery is
\* invoked only after the per-user peer cache and then the shared peer pool
\* have been consulted, and the peers it discovered are in the peer pool.
C4_Claimed ==
    \A r \in Runners :
        ~run[r].force_refresh_peers =>
            \A i \in CallPos(r, "find_peers") :
                /\ \E j \in CallPos(r, "query_peer_matches") :
                      /\ j < i
                      /\ \E k \in CallPos(r, "get_peers_from_pool") : j < k /\ k < i
                /\ \A p \in Range(run[r].peers) :
                      \E row \in peer_pools : row.handle = p.handle

\* the error a failing outcome of an external call raises
ErrorOf(out) == IF out.kind = "raise" THEN out.error ELSE "ValueError"

\* run r is about to call Grok for the profile: analyze_user has the tweets
\* it needs
ProfilingCalled(r) ==
    /\ run[r].pc = "analyze_user"
    /\ ~(should_fetch_tweets(run[r].user_data[1].followers_count)
            /\ run[r].tweets = <<>>)

\* run r ends this step failed with the error of outcome out, the analyses
\* table untouched
FailsWith(r, out) ==
    /\ run'[r].pc = "failed"
    /\ run'[r].error = ErrorOf(out)
    /\ analyses' = analyses

\* C5: a failing external call (basic-metrics fetch, tweet fetch, AI
\* profiling, peer discovery, insight generation) ends the run with that
\* error and leaves the analyses table as it was; the table changes only
\* in the step that completes a run, which appends one row for its user.
C5_NoPartialAnalysis ==
    [][/\ \A r \in Runners :
            /\ \A out \in UserOutcomes :
                  (out.kind = "raise" /\ get_user_by_handle(r, out)) => FailsWith(r, out)
            /\ \A out \in TweetOutcomes :
                  (out.kind = "raise" /\ get_user_tweets(r, out)) => FailsWith(r, out)
            /\ \A out \in ProfileOutcomes :
                  (out.kind # "ok" /\ ProfilingCalled(r) /\ analyze_user(r, out))
                      => FailsWith(r, out)
            /\ \A out \in PeerOutcomes :
                  ((out.kind # "ok" \/ out.value = <<>>) /\ find_peers(r, out))
                      => FailsWith(r, out)
            /\ \A out \in InsightOutcomes :
                  (out.kind # "ok" /\ generate_insights(r, out)) => FailsWith(r, out)
            /\ (run[r].pc # "done" /\ run'[r].pc = "done") =>
                  Len(analyses') = Len(analyses) + 1
       /\ analyses' # analyses =>
            \E r \in Runners :
                /\ run[r].pc = "generate_insights"
                /\ run'[r].pc = "done"
                /\ Len(analyses') = Len(analyses) + 1
                /\ SubSeq(analyses', 1, Len(analyses)) = analyses
                /\ analyses'[Len(analyses')].user_id = run[r].user_id
      ]_vars

\* a run that saved a profile and peers and then failed at insight
\* generation, with no analysis stored
C5_Witness ==
    /\ run["r1"].pc = "failed"
    /\ run["r1"].error = "GrokAPIError"
    /\ run["r1"].calls[Len(run["r1"].calls)] = "generate_insights"
    /\ user_profiles # <<>>
    /\ peer_matches # <<>>
    /\ analyses = <<>>

\* the user_profiles rows of a user created less than 6 hours ago
LiveProfiles(user_id) ==
    {i \in 1..Len(user_profiles) :
        /\ user_profiles[i].user_id = user_id
        /\ now < user_profiles[i].analyzed_at + profile_ttl_hours}

\* C11: a run that does not force a profile refresh, begun less than 6 hours
\* after the user's most recent record was created, takes that record and
\* goes on to peer resolution without a basic-metrics fetch, tweet fetch or
\* profiling call; begun when every record of the user is 6 hours old or
\* older it starts a fresh fetch; and every record persisted expires 6 hours
\* after the time it is persisted.
C11_ProfileTTL ==
    [][/\ \A r \in Runners, user_id \in DOMAIN users, fpeers \in BOOLEAN :
            run_full_analysis(r, user_id, FALSE, fpeers) =>
                LET live == LiveProfiles(user_id)
                IN IF live # {}
                   THEN /\ run'[r].pc \in {"find_peers", "generate_insights"}
                        /\ \A j \in live : j <= run'[r].profile[1].db_id
                        /\ run'[r].profile[1].db_id \in live
                        /\ Range(run'[r].calls) \subseteq {"query_peer_matches"}
                        /\ user_profiles' = user_profiles
                   ELSE /\ run'[r].pc = "get_user_by_handle"
                        /\ run'[r].profile = <<>>
       /\ \A r \in Runners :
            (run[r].pc = "analyze_user" /\ run'[r].pc \in {"find_peers", "generate_insights"}) =>
                /\ Len(user_profiles') = Len(user_profiles) + 1
                /\ user_profiles'[Len(user_profiles')].user_id = run[r].user_id
                /\ user_profiles'[Len(user_profiles')].expires_at = now + 6
                /\ run'[r].profile[1].db_id = Len(user_profiles')
                /\ Range(run'[r].calls) \cap {"get_user_by_handle", "grok_profile"}
                      = {"get_user_by_handle", "grok_profile"}
      ]_vars

\* a run without forced refresh begun exactly when the user's only record
\* expires: it goes to the basic-metrics fetch
C11_Witness ==
    /\ run["r1"].pc = "get_user_by_handle"
    /\ ~run["r1"].force_refresh_profile
    /\ Len(user_profiles) = 1
    /\ user_profiles[1].user_id = run["r1"].user_id
    /\ user_profiles[1].analyzed_at + 6 = now

\* C12: a run without forced refresh that takes the record created by the
\* previous, completed run of the same service returns a profile equal,
\* field for field, to the profile that run returned.
C12_Claimed ==
    [][\A r \in Runners, user_id \in DOMAIN users, fpeers \in BOOLEAN :
          ( /\ run_full_analysis(r, user_id, FALSE, fpeers)
            /\ run[r].pc = "done"
            /\ "grok_profile" \in Range(run[r].calls)
            /\ run'[r].profile # <<>>
            /\ run'[r].profile[1].db_id = run[r].profile[1].db_id )
          => run'[r].profile = run[r].profile
      ]_vars

\* the user_profiles rows of a user that have not expired
UnexpiredProfiles(user_id) ==
    {i \in 1..Len(user_profiles) :
        /\ user_profiles[i].user_id = user_id
        /\ user_profiles[i].expires_at > now}

\* C13: at every time each user has at most one non-expired user_profiles
\* record.
C13_Claimed ==
    \A user_id \in DOMAIN users : Cardinality(UnexpiredProfiles(user_id)) <= 1

\* C14: no step of a run (cache hit, miss or forced refresh) deletes or
\* changes a user_profiles row: the rows present before a step are present,
\* with the same values, after it.
C14_InsertOnly ==
    [][/\ Len(user_profiles') >= Len(user_profiles)
       /\ \A i \in 1..Len(user_profiles) : user_profiles'[i] = user_profiles[i]
      ]_vars

\* a forced refresh has stored a second record next to the first
C14_Witness ==
    /\ Len(user_profiles) = 2
    /\ user_profiles[1].user_id = user_profiles[2].user_id
    /\ run["r1"].force_refresh_profile
    /\ run["r1"].profile # <<>>
    /\ run["r1"].profile[1].db_id = 2

\* C15: once a run creating a fresh profile has the account's basic
\* metrics, it requests the tweet fetch exactly when the follower count is
\* below 100,000: below it the fetch is the next call or has been made, at
\* or above it the fetch is never made and profiling proceeds without tweets.
C15_SizeThreshold ==
    \A r \in Runners :
        run[r].user_data # <<>> =>
            LET fetched == \/ run[r].pc = "get_user_tweets"
                           \/ "get_user_tweets" \in Range(run[r].calls)
            IN /\ fetched <=> (run[r].user_data[1].followers_count < 100000)
               /\ ~fetched => run[r].tweets = <<>>

\* an account of exactly 100,000 followers profiled without a tweet fetch
C15_Witness ==
    /\ run["r1"].user_data # <<>>
    /\ run["r1"].user_data[1].followers_count = 100000
    /\ "grok_profile" \in Range(run["r1"].calls)
    /\ "get_user_tweets" \notin Range(run["r1"].calls)
    /\ run["r1"].profile # <<>>

\* the rows a require-valid read of pool_key may draw from: the exact pool
\* key, is_valid, validated less than 7 days (168 hours) ago
ValidEntries(pool_key) ==
    {row \in peer_pools :
        /\ row.pool_key = pool_key
        /\ row.is_valid
        /\ row.last_validated > now - 168}

\* hs lists the handles of distinct rows of S, in an order that is
\* descending in times_used and, among equal times_used, in last_validated
ListsRanked(hs, S) ==
    \E s \in [1..Len(hs) -> S] :
        /\ \A k \in 1..Len(hs) : s[k].handle = hs[k]
        /\ \A i, j \in 1..Len(hs) :
              i < j =>
                  /\ s[i] # s[j]
                  /\ \/ s[i].times_used > s[j].times_used
                     \/ /\ s[i].times_used = s[j].times_used
                        /\ s[i].last_validated >= s[j].last_validated

EligibleEntries(pool_key, require_valid) ==
    IF require_valid THEN ValidEntries(pool_key)
    ELSE {row \in peer_pools : row.pool_key = pool_key}

\* C17: get_peers_from_pool returns exactly min(count, number of eligible
\* entries) handles: all of them when the pool has fewer than count, and
\* the empty list exactly when no entry is eligible.
C17_Size ==
    [][psess'["r1"].op = "get_peers_from_pool" =>
          \A niche \in Niches, followers \in FollowerArgs, count \in CountArgs,
             require_valid \in BOOLEAN :
              get_peers_from_pool("r1", niche, followers, count, require_valid, FALSE)
              => LET n == Cardinality(EligibleEntries(generate_pool_key(niche, followers),
                                                      require_valid))
                 IN /\ Len(psess'["r1"].handles) = Min2(count, n)
                    /\ (psess'["r1"].handles = <<>>) <=> (n = 0)
      ]_vars

\* a read that returned both entries of a pool (fewer than the 5 asked for)
\* although one of them is not valid
C17_Witness ==
    /\ psess["r1"].op = "get_peers_from_pool"
    /\ Len(psess["r1"].handles) = 2
    /\ \E a \in peer_pools : ~a.is_valid /\ a.handle \in Range(psess["r1"].handles)

\* C18: increment_usage(handles, pool_key) with no handle listed twice
\* raises times_used by exactly 1 on every row of that pool whose handle
\* is listed, and leaves every other row of the table as it was.
C18_IncrementFrame ==
    [][psess'["r1"].op = "increment_usage" =>
          \A handles \in HandleLists, pool_key \in UsePoolKeys :
              \/ /\ Cardinality(peer_pools') = Cardinality(peer_pools)
                 /\ \A row \in peer_pools :
                       IF row.pool_key = pool_key /\ row.handle \in Range(handles)
                       THEN [row EXCEPT !.times_used = @ + 1] \in peer_pools'
                       ELSE row \in peer_pools'
              \/ \E i, j \in 1..Len(handles) : handles[i] = handles[j] /\ i # j
              \/ ~increment_usage("r1", handles, pool_key, FALSE)
      ]_vars

\* after an increment: ann counted in one pool, ann of the other pool and
\* bob of the same pool not counted
C18_Witness ==
    /\ psess["r1"].op = "increment_usage"
    /\ \E a, b, c \in peer_pools :
          /\ a.handle = "ann" /\ a.times_used = 1
          /\ b.handle = "bob" /\ b.pool_key = a.pool_key /\ b.times_used = 0
          /\ c.handle = "ann" /\ c.pool_key # a.pool_key /\ c.times_used = 0

\* the pool entries whose handle is among the peers the run of r returned
SelectedEntries(r) ==
    {row \in peer_pools :
        \E i \in 1..Len(run[r].peers) : lstrip_at(run[r].peers[i].handle) = row.handle}

\* C19: when an analysis run has completed, every pool entry whose handle is
\* among the peers the run returned has had its times_used incremented (the
\* entries are in the pool before the run starts, so each was used at least
\* once).
C19_Claimed ==
    \A r \in DOMAIN run :
        run[r].pc = "done" => \A row \in SelectedEntries(r) : row.times_used >= 1

\* C20: when complete_json returns a value, cleaning the cleaned text a
\* second time gives the same text, and parsing that gives the same value.
C20_Claimed ==
    jsoncall.pc = "returned" =>
        /\ clean_response(jsoncall.response_clean) = jsoncall.response_clean
        /\ grok_json_loads(clean_response(jsoncall.response_clean)).value = jsoncall.value

\* the response as cleaned before the commas are removed
unfenced(response) == strip(strip_fences(strip(response)))

RECURSIVE quoted_strings(_)
\* the contents of the quoted strings of a text, in the order of the text
quoted_strings(s) ==
    LET i == quote_at(s, 1)
        j == IF i = 0 THEN 0 ELSE quote_at(s, i + 1)
    IN IF j = 0 THEN <<>>
       ELSE <<SubSeq(s, i + 1, j - 1)>> \o quoted_strings(SubSeq(s, j + 1, Len(s)))

\* the string tokens of a parsed value
StringsOf(value) ==
    LET keep == [i \in 1..Len(value) |-> value[i].t = "str"]
        idx == SelectIdx(value, keep, 1)
    IN [k \in 1..Len(idx) |-> value[idx[k]].s]

\* C21: when complete_json returns a value, every quoted string of the value
\* has the content it has in the response (also a string that holds a
\* digit-comma-digit sequence); only commas of bare numbers are removed.
C21_Claimed ==
    jsoncall.pc = "returned" =>
        StringsOf(jsoncall.value) = quoted_strings(unfenced(jsoncall.response))

\* C22: on a response that is valid JSON as it stands, complete_json returns
\* the value json.loads gives for the response itself.
C22_Claimed ==
    (jsoncall.pc # "called" /\ grok_json_loads(jsoncall.response).ok) =>
        /\ jsoncall.pc = "returned"
        /\ jsoncall.value = grok_json_loads(jsoncall.response).value

\* the positions of the responses of the call with one of the statuses
StatusPos(statuses) ==
    {i \in 1..Len(call.responses) :
        call.responses[i].kind = "http" /\ call.responses[i].status \in statuses}

\* C23: a request that receives HTTP 401 or 403 is the last request of the
\* call, whatever the retry count it was sent with: the call has failed as
\* AuthError, and neither a retry was counted nor a wait made for it.
C23_AuthNotRetried ==
    \A i \in StatusPos({401, 403}) :
        /\ i = Len(call.responses)
        /\ call.pc = "raised"
        /\ call.error = "AuthError"
        /\ call.retry_count = i - 1
        /\ Len(call.sleeps) = i - 1

C23_Witness ==
    /\ call.client = "grok"
    /\ call.pc = "raised"
    /\ call.error = "AuthError"
    /\ Len(call.responses) = 3
    /\ call.responses[3] = [kind |-> "http", status |-> 403]
    /\ call.retry_count = 2

\* C24: a request that receives HTTP 404 ends the call without a retry, and
\* the failure is of kind NotFound, which no other status is reported as.
C24_Claimed ==
    /\ \A i \in StatusPos({404}) :
          /\ i = Len(call.responses)
          /\ call.pc = "raised"
          /\ call.error = "NotFound"
    /\ \A i \in StatusPos({401, 403, 500}) : call.error # "NotFound"

\* every attempt of the call so far has timed out
AllTimedOut ==
    \A i \in 1..Len(call.responses) : call.responses[i].kind = "timeout"

\* C25: when every attempt of a call times out, the call is retried after a
\* fixed wait of timeout_wait seconds while fewer than max_retries retries
\* were made, and the attempt after the last retry ends it with the Timeout
\* failure; no more than max_retries + 1 requests are sent.
C25_TimeoutRetry ==
    (call.pc # "idle" /\ AllTimedOut) =>
        /\ Len(call.responses) <= max_retries(call.client) + 1
        /\ \A k \in 1..Len(call.sleeps) : call.sleeps[k] = timeout_wait
        /\ Len(call.responses) <= max_retries(call.client) =>
              /\ call.pc = "request"
              /\ call.retry_count = Len(call.responses)
              /\ Len(call.sleeps) = Len(call.responses)
        /\ Len(call.responses) = max_retries(call.client) + 1 =>
              /\ call.pc = "raised"
              /\ call.error = "Timeout"
              /\ call.retry_count = max_retries(call.client)

C25_Witness ==
    /\ call.client = "twitter"
    /\ call.pc = "raised"
    /\ call.error = "Timeout"
    /\ AllTimedOut
    /\ Len(call.responses) = 4
    /\ call.sleeps = <<2, 2, 2>>

\* C26: whatever the responses, a call sends at most max_retries + 1
\* requests: every retry, after a 429 or after a timeout, advances the one
\* retry_count, so the requests sent are retry_count + 1 (retry_count while
\* the next one is pending), and the request sent with retry_count =
\* max_retries ends the call with a result or a failure.
C26_RetriesCapped ==
    call.pc # "idle" =>
        /\ call.retry_count <= max_retries(call.client)
        /\ Len(call.responses) <= max_retries(call.client) + 1
        /\ call.pc = "request" => Len(call.responses) = call.retry_count
        /\ call.pc \in {"returned", "raised"} =>
              Len(call.responses) = call.retry_count + 1

C26_Witness ==
    /\ call.pc = "raised"
    /\ call.error = "Timeout"
    /\ Len(call.responses) = 4
    /\ call.responses[1] = [kind |-> "http", status |-> 429]
    /\ call.responses[2].kind = "timeout"
    /\ call.responses[3] = [kind |-> "http", status |-> 429]

\* the number of calls of the given name the run of r has made
CallCount(r, name) == Cardinality(CallPos(r, name))

\* C27: a completed run has called insight generation exactly once, as its
\* last call, with a profile and peers resolved (from cache or afresh), and
\* the report it returns is the response of that call.
C27_InsightsFresh ==
    [][/\ \A out \in InsightOutcomes :
             (generate_insights("r1", out) /\ run'["r1"].pc = "done") =>
                 /\ CallCount("r1", "generate_insights") = 0
                 /\ run'["r1"].calls = Append(run["r1"].calls, "generate_insights")
                 /\ run["r1"].profile # <<>>
                 /\ run["r1"].peers # <<>>
                 /\ run'["r1"].result[1].analysis = out.value
       /\ (run["r1"].pc # "done" /\ run'["r1"].pc = "done") =>
             \E out \in InsightOutcomes : generate_insights("r1", out)
      ]_vars

\* a completed run that took both the profile and the peers from cache
C27_Witness ==
    /\ run["r1"].pc = "done"
    /\ run["r1"].calls = <<"query_peer_matches", "generate_insights">>
    /\ Len(analyses) = 2
    /\ run["r1"].result[1].analysis = <<CompleteResponse>>

\* a response that lacks a required section or has no non-empty list of insights
Incomplete(response) ==
    \/ \E key \in {"growth_score", "posting_analysis", "content_analysis",
                   "topic_analysis", "structure_analysis", "insights"} :
          key \notin response.keys
    \/ ~response.insights.is_list
    \/ response.insights.len = 0

\* C30: when the analysis response is parsed JSON but incomplete, the run
\* fails with an error, returns no report and stores no Analysis record.
C30_IncompleteRejected ==
    [][\A out \in InsightOutcomes :
          (out.kind # "raise" /\ Incomplete(out.value[1]) /\ generate_insights("r1", out)) =>
              /\ run'["r1"].pc = "failed"
              /\ run'["r1"].error = "ValueError"
              /\ run'["r1"].result = <<>>
              /\ analyses' = analyses
      ]_vars

\* a run failed at insight generation on an incomplete response
C30_Witness ==
    /\ run["r1"].pc = "failed"
    /\ run["r1"].error = "ValueError"
    /\ run["r1"].calls # <<>>
    /\ run["r1"].calls[Len(run["r1"].calls)] = "generate_insights"
    /\ analyses = <<>>

\* the peer_matches rows of a user that have not expired, oldest first
FreshPeerRows(user_id) ==
    SelectIdx(peer_matches,
              [i \in 1..Len(peer_matches) |->
                  /\ peer_matches[i].user_id = user_id
                  /\ peer_matches[i].expires_at > now],
              1)

\* the run of r passes from profile resolution to peer resolution
EntersPeers(r) ==
    /\ run[r].pc \notin {"find_peers", "generate_insights"}
    /\ run'[r].pc \in {"find_peers", "generate_insights"}

\* C28: when a run comes to resolve peers, it takes them from the per-user
\* cache exactly when force_refresh_peers is false and the user has at least
\* 5 non-expired peer_matches rows, and then they are the 5 newest of these;
\* otherwise (forced, or fewer than 5 fresh rows) it goes on to discover
\* peers afresh.  The rows a discovery stores expire 24 hours later.
C28_PeerCacheThreshold ==
    [][/\ EntersPeers("r1") =>
             LET fresh == FreshPeerRows(run'["r1"].user_id)
                 n == Len(fresh)
                 use == ~run'["r1"].force_refresh_peers /\ n >= 5
             IN /\ use <=> run'["r1"].pc = "generate_insights"
                /\ ~use <=> run'["r1"].pc = "find_peers"
                /\ use => run'["r1"].peers =
                             [k \in 1..5 |-> peer_matches[fresh[n + 1 - k]].peer_profile]
       /\ peer_matches' # peer_matches =>
             \A i \in 1..Len(peer_matches') :
                 peer_matches'[i].user_id = run["r1"].user_id =>
                     peer_matches'[i].expires_at = now + 24
      ]_vars

\* a run that found one fresh cached peer, not forced, and went on to discovery
C28_Witness ==
    /\ run["r1"].pc = "find_peers"
    /\ ~run["r1"].force_refresh_peers
    /\ Len(FreshPeerRows("u1")) \in 1..4

\* the rows of a pool key
PoolRows(pool_key) == {row \in peer_pools : row.pool_key = pool_key}

\* C29: mark_invalid(handle, pool_key) keeps the entry in the table with
\* is_valid = FALSE and changes no other entry; a read with
\* require_valid = TRUE returns no handle whose entry is invalid; a read with
\* require_valid = FALSE that asks for at least as many peers as the pool has
\* returns the invalid entries too; and an invalid entry becomes valid again
\* only in the commit of an add_peers_to_pool that found it again.  (Each
\* part reads "the effect holds, or the step is not that call".)
C29_SoftDelete ==
    [][/\ psess'["r1"].op = "mark_invalid" =>
             \A handle \in PeerHandles, pool_key \in UsePoolKeys :
                 \/ /\ Cardinality(peer_pools') = Cardinality(peer_pools)
                    /\ \A row \in peer_pools :
                          IF row.pool_key = pool_key /\ row.handle = handle
                          THEN [row EXCEPT !.is_valid = FALSE] \in peer_pools'
                          ELSE row \in peer_pools'
                 \/ ~mark_invalid("r1", handle, pool_key, FALSE)
       /\ psess'["r1"].op = "get_peers_from_pool" =>
             \A niche \in Niches, followers \in FollowerArgs, count \in CountArgs :
                 LET pool_key == generate_pool_key(niche, followers)
                     hs == psess'["r1"].handles
                 IN /\ \/ \A k \in 1..Len(hs) :
                             \E row \in PoolRows(pool_key) :
                                 row.handle = hs[k] /\ row.is_valid
                       \/ ~get_peers_from_pool("r1", niche, followers, count, TRUE, FALSE)
                    /\ \/ \A row \in PoolRows(pool_key) : row.handle \in Range(hs)
                       \/ count < Cardinality(PoolRows(pool_key))
                       \/ ~get_peers_from_pool("r1", niche, followers, count, FALSE, FALSE)
       /\ peer_pools' # peer_pools =>
             \A row \in peer_pools, row2 \in peer_pools' :
                 (row2.id = row.id /\ ~row.is_valid /\ row2.is_valid)
                 => /\ pool_add_commit("r1")
                    /\ row.id \in DOMAIN psess["r1"].objs
      ]_vars

\* after mark_invalid: ann is kept as an invalid entry with its usage count,
\* bob of the same pool is still valid
C29_Witness ==
    /\ psess["r1"].op = "mark_invalid"
    /\ \E a, b \in peer_pools :
          /\ a.handle = "ann" /\ ~a.is_valid /\ a.times_used >= 1
          /\ b.handle = "bob" /\ b.is_valid /\ b.pool_key = a.pool_key

\* C31: an increment_usage call in which the storage fails returns to its
\* caller without an exception, having logged the error, and leaves table
\* peer_pools, and so every times_used value, as it was before the call.
C31_FaultRolledBack ==
    [][psess'["r1"].op = "increment_usage" =>
          \A handles \in HandleLists \ {<<>>}, pool_key \in UsePoolKeys :
              \/ /\ peer_pools' = peer_pools
                 /\ psess'["r1"].pc = "idle"
                 /\ psess'["r1"].logged
              \/ ~increment_usage("r1", handles, pool_key, TRUE)
      ]_vars

\* after a failed increment_usage: the error logged, an entry that was
\* counted before still at its count, another never counted
C31_Witness ==
    /\ psess["r1"].op = "increment_usage"
    /\ psess["r1"].logged
    /\ \E a, b \in peer_pools :
          /\ a.pool_key = b.pool_key
          /\ a.times_used = 1
          /\ b.times_used = 0

-----------------------------------------------------------------------------
(* Claims about the cost ledger *)

\* ceil(count / 1000 * 15000) in exact arithmetic
ceil_credits(count) == (count * 15000 + 999) \div 1000

\* C32: add_tweets_call(count) raises the credit total by
\* ceil(count / 1000 * 15000) credits, or by the minimum charge of 15 when
\* that amount is lower, and raises the tweets call counter by exactly one.
C32_Claimed ==
    [][\A count \in TweetCounts :
          add_tweets_call(count) =>
              /\ ledger'.twitter_credits - ledger.twitter_credits
                    = IF ceil_credits(count) < 15 THEN 15 ELSE ceil_credits(count)
              /\ ledger'.api_calls.tweets = ledger.api_calls.tweets + 1
      ]_vars

\* the add calls of one kind in a history
calls_of(history, kind) == SelectSeq(history, LAMBDA c : c.kind = kind)

\* the charge of add_tweets_call for every count of the model
tweet_charges == [count \in TweetCounts |-> tweet_credits(count)]

RECURSIVE sum_tweet_charges(_)
sum_tweet_charges(history) ==
    IF history = <<>> THEN 0
    ELSE tweet_charges[Head(history).tweet_count] + sum_tweet_charges(Tail(history))

RECURSIVE sum_tokens(_, _)
sum_tokens(history, field) ==
    IF history = <<>> THEN 0
    ELSE Head(history)[field] + sum_tokens(Tail(history), field)

\* the totals a history of add calls determines
totals_of(history) ==
    [twitter_credits |-> TWITTER_USER_INFO * Len(calls_of(history, "user_info"))
                         + TWITTER_SEARCH * Len(calls_of(history, "search"))
                         + sum_tweet_charges(calls_of(history, "tweets")),
     grok_input_tokens |-> sum_tokens(calls_of(history, "grok"), "input_tokens"),
     grok_output_tokens |-> sum_tokens(calls_of(history, "grok"), "output_tokens"),
     api_calls |-> [user_info |-> Len(calls_of(history, "user_info")),
                    tweets |-> Len(calls_of(history, "tweets")),
                    search |-> Len(calls_of(history, "search")),
                    grok |-> Len(calls_of(history, "grok"))]]

\* the orders in which the calls of a history can be made
reorderings(history) ==
    {[i \in 1..Len(history) |-> history[p[i]]] : p \in Permutations(1..Len(history))}

\* C33: after any sequence of add calls the credit total is 18 per user info
\* call plus 20 per search call plus the sum of the tweet charges, the token
\* totals are the sums of the recorded tokens, every counter counts the calls
\* of its own category only, and the calls made in any other order give the
\* same totals.
C33_LedgerOfHistory ==
    \A history \in reorderings(ledger.history) :
        LET totals == totals_of(history)
        IN /\ ledger.twitter_credits = totals.twitter_credits
           /\ ledger.grok_input_tokens = totals.grok_input_tokens
           /\ ledger.grok_output_tokens = totals.grok_output_tokens
           /\ ledger.api_calls = totals.api_calls

C33_Witness ==
    /\ Len(ledger.history) = 4
    /\ \A kind \in {"user_info", "tweets", "search", "grok"} :
          Len(calls_of(ledger.history, kind)) = 1
    /\ ledger.history[1].kind = "grok"
    /\ ledger.history[1].input_tokens = 1200
    /\ ledger.history[4].kind = "tweets"
    /\ ledger.history[4].tweet_count = 40
    /\ ledger.twitter_credits = 638

-----------------------------------------------------------------------------
(* Claims about handles, upserts and cleanup *)

upper_char(c) == IF c = "a" THEN "A" ELSE IF c = "b" THEN "B" ELSE c

\* the spellings of handle h: any case of each letter, with or without '@'
Variants(h) ==
    LET cased == {v \in [1..Len(h) -> {"a", "b", "A", "B", "@"}] :
                     \A i \in 1..Len(h) : v[i] \in {lower_char(h[i]), upper_char(h[i])}}
    IN cased \cup {<<"@">> \o v : v \in cased}

\* C34: get, put and invalidate called with a handle, with '@' before it or
\* with any upper/lower-case spelling of it address the same cache entries:
\* a get returns the freshest entry any spelling selects, a put stores the
\* entry under the name every spelling looks up, and an invalidate removes
\* the entries of every spelling.
C34_HandleInsensitive ==
    [][\A v \in Variants(cret'.handle) :
          LET h == cret'.handle
              name == normalize_handle(v)
          IN /\ cret'.op = "get" =>
                   \/ /\ cret'.hit =>
                            \E i \in cache_first(name, now - ttl_hours) :
                               cret'.value = json_loads(tweets_cache[i].tweet_data)
                      /\ ~cret'.hit => cache_first(name, now - ttl_hours) = {}
                   \/ ~get_cached_tweets(h, FALSE)
             /\ cret'.op = "put" =>
                   \/ /\ Len(tweets_cache') = Len(tweets_cache) + 1
                      /\ tweets_cache'[Len(tweets_cache')].x_handle = name
                   \/ \A tweets \in TweetLists : ~cache_tweets(h, tweets, FALSE)
             /\ cret'.op = "invalidate" =>
                   \/ tweets_cache' =
                         cache_keep([i \in 1..Len(tweets_cache) |->
                                        tweets_cache[i].x_handle # name])
                   \/ ~invalidate_cache(h, FALSE)
      ]_vars

C34_Witness ==
    /\ cret.op = "get"
    /\ cret.hit
    /\ cret.handle = <<"@", "A">>
    /\ cret.value = <<"t2", "t1">>
    /\ Len(tweets_cache) = 2
    /\ tweets_cache[1].x_handle = <<"b">>
    /\ tweets_cache[2].x_handle = <<"a">>

\* the rows of the table after a step that the table did not hold before it
inserted_rows == {new \in peer_pools' : \A row \in peer_pools : row.id # new.id}

\* C35: when add_peers_to_pool re-sights a handle that exists under the pool
\* key, the entry gets the sighted follower count and growth rate, the time
\* of the sighting as last_validated and is_valid = true, also when it was
\* marked invalid, and keeps its times_used; a handle not in the pool is
\* inserted with times_used = 0; the call returns the number of inserted
\* entries.
C35_Upsert ==
    [][psess["r1"].pc = "add_loop" =>
          LET sess == psess["r1"]
              after == psess'["r1"]
          IN /\ (sess.todo # <<>> /\ after.pc = "add_loop" /\ after.todo = Tail(sess.todo)) =>
                   LET peer == Head(sess.todo)
                       found == {row \in peer_pools :
                                    row.pool_key = sess.pool_key /\ row.handle = peer.handle}
                   IN IF found # {}
                      THEN /\ after.pending = sess.pending
                           /\ after.added_count = sess.added_count
                           /\ \E existing \in found :
                                 LET cur == after.objs[existing.id].cur
                                 IN /\ cur.follower_count = peer.followers_count
                                    /\ cur.growth_rate = peer.estimated_30d_growth
                                    /\ cur.last_validated = now
                                    /\ cur.is_valid
                                    /\ cur.times_used = existing.times_used
                      ELSE /\ after.objs = sess.objs
                           /\ after.added_count = sess.added_count + 1
                           /\ Len(after.pending) = Len(sess.pending) + 1
                           /\ LET new_peer == after.pending[Len(after.pending)]
                              IN /\ new_peer.handle = peer.handle
                                 /\ new_peer.pool_key = sess.pool_key
                                 /\ new_peer.follower_count = peer.followers_count
                                 /\ new_peer.is_valid
                                 /\ new_peer.times_used = 0
             /\ (sess.todo = <<>> /\ after.pc = "idle" /\ ~after.logged) =>
                   /\ \A row \in peer_pools :
                         \E new \in peer_pools' :
                            /\ new.id = row.id
                            /\ IF row.id \in DOMAIN sess.objs
                               THEN LET cur == sess.objs[row.id].cur
                                    IN new = [row EXCEPT
                                                !.follower_count = cur.follower_count,
                                                !.growth_rate = cur.growth_rate,
                                                !.last_validated = cur.last_validated,
                                                !.is_valid = TRUE]
                               ELSE new = row
                   /\ \A new \in inserted_rows : new.times_used = 0
                   /\ after.ret = Cardinality(inserted_rows)
      ]_vars

C35_Witness ==
    /\ psess["r1"] = [SessIdle EXCEPT !.ret = 0]
    /\ now = 24 * 7
    /\ \E ann, bob \in peer_pools :
          /\ peer_pools = {ann, bob}
          /\ bob.handle = "bob" /\ bob.last_validated = 0
          /\ ann.handle = "ann" /\ ann.last_validated = now
          /\ ann.follower_count = 2100 /\ ann.is_valid /\ ann.times_used = 1

\* the cache rows a cleanup with this threshold must keep, in table order
not_older(threshold) == SelectSeq(tweets_cache, LAMBDA row : row.fetched_at >= threshold)

calls_counted(l) ==
    l.api_calls.user_info + l.api_calls.tweets + l.api_calls.search + l.api_calls.grok
charged(l) == l.twitter_credits + l.grok_input_tokens + l.grok_output_tokens

\* C37: a logical call that succeeds, after any number of retries, adds
\* exactly one call count and one charge to the ledger; an attempt that is
\* retried and a call that ends in a terminal failure add nothing.
C37_Claimed ==
    [][/\ (\/ call.client = "grok" /\ call.pc = "request" /\ call'.pc = "returned"
           \/ call.client = "twitter" /\ call.pc = "returned" /\ call'.pc = "idle") =>
             /\ calls_counted(ledger') = calls_counted(ledger) + 1
             /\ Len(ledger'.history) = Len(ledger.history) + 1
             /\ charged(ledger') > charged(ledger)
       /\ (call.pc = "request" /\ call'.pc \in {"request", "raised"}) =>
             ledger' = ledger
      ]_vars

-----------------------------------------------------------------------------
(* Claims about concurrent runs *)

\* C38: when runs call increment_usage at the same time for the same
\* (pool_key, handle), no update is lost: every call that commits leaves the
\* entry's times_used higher than the committed value by the increments it
\* made, so two calls leave it exactly 2 higher.
C38_Claimed ==
    [][\A r \in Runners :
          (/\ psess[r].pc = "inc_loop"
           /\ psess[r].handles = <<>>
           /\ psess'[r].pc = "idle"
           /\ ~psess'[r].logged) =>
             \A row \in peer_pools :
                row.id \in DOMAIN psess[r].objs =>
                   \E new \in peer_pools' :
                      /\ new.id = row.id
                      /\ new.times_used
                            = row.times_used + psess[r].objs[row.id].cur.times_used
                                             - psess[r].objs[row.id].loaded.times_used
      ]_vars

\* the number of peer_matches rows of a user stored less than 24 hours ago
StoredPeers(user_id) ==
    Cardinality({i \in 1..Len(peer_matches) :
                    /\ peer_matches[i].user_id = user_id
                    /\ now < peer_matches[i].created_at + 24})

\* C39 as claimed: once a discovery has stored peers for a user, every
\* later run for that user within 24 hours that is not forced takes its
\* peers from the per-user cache and makes no peer-discovery call, whether
\* the discovery stored 1, 2, 3, 4 or 5 peers.
C39_Claimed ==
    [][(/\ EntersPeers("r1")
        /\ ~run'["r1"].force_refresh_peers
        /\ StoredPeers(run'["r1"].user_id) \in 1..5) =>
             run'["r1"].pc = "generate_insights"
      ]_vars

\* C39: once a discovery has stored 5 peers for a user, every later run for
\* that user within 24 hours that is not forced takes its peers from the
\* per-user cache and makes no peer-discovery call; when the discovery
\* stored 1 to 4 peers, the later run discovers peers again.
C39_PeerCacheReuse ==
    [][(/\ EntersPeers("r1")
        /\ ~run'["r1"].force_refresh_peers
        /\ StoredPeers(run'["r1"].user_id) \in 1..5) =>
             IF StoredPeers(run'["r1"].user_id) = 5
             THEN /\ run'["r1"].pc = "generate_insights"
                  /\ Len(run'["r1"].peers) = 5
                  /\ "find_peers" \notin Range(run'["r1"].calls)
             ELSE run'["r1"].pc = "find_peers"
      ]_vars

\* a run that was served the 5 stored peers without a discovery call
C39_Witness ==
    /\ run["r1"].pc = "generate_insights"
    /\ ~run["r1"].force_refresh_peers
    /\ "find_peers" \notin Range(run["r1"].calls)
    /\ StoredPeers("u1") = 5
    /\ Len(run["r1"].peers) = 5
    /\ now = 18

\* run r holds the data of an account below 100,000 followers and an empty
\* tweet list, and is about to profile it
EmptyFetch(r) ==
    /\ run[r].pc = "analyze_user"
    /\ run[r].user_data[1].followers_count < 100000
    /\ run[r].tweets = <<>>

\* C40: for an account with fewer than 100,000 followers whose tweet fetch
\* returned an empty list, profile resolution fails with an error before any
\* AI profiling call is made, and the run persists no profile row and no
\* analysis row, neither in the failing step nor after it.
C40_EmptyFetchFails ==
    [][/\ (EmptyFetch("r1") /\ run'["r1"] # run["r1"]) =>
             /\ run'["r1"].pc = "failed"
             /\ run'["r1"].error = "ValueError"
             /\ run'["r1"].calls = run["r1"].calls
             /\ "grok_profile" \notin Range(run'["r1"].calls)
             /\ user_profiles' = user_profiles
             /\ analyses' = analyses
       /\ (run["r1"].pc \in {"get_user_by_handle", "get_user_tweets"}) =>
             /\ user_profiles' = user_profiles
             /\ analyses' = analyses
      ]_vars

\* a run that failed right after the fetch of an empty tweet list
C40_Witness ==
    /\ run["r1"].pc = "failed"
    /\ run["r1"].error = "ValueError"
    /\ run["r1"].calls = <<"get_user_by_handle", "get_user_tweets">>
    /\ run["r1"].user_data[1].followers_count = 5000
    /\ run["r1"].tweets = <<>>
    /\ user_profiles = <<>>
    /\ analyses = <<>>

====
